---- MODULE Spec2Model ----
(***************************************************************************)
(* A model of the JerryScript lexer (js-lexer.c): the source cursor, the   *)
(* whitespace/comment skipper, the token scanner, the keyword tables, the  *)
(* literal pool and the identifier comparison.  Every C function is an     *)
(* operator from a parser context to the parser context it leaves behind;  *)
(* the actions are the calls the (external) parser makes.                  *)
(* The byte code tables (byte-code.h) and the ArrayBuffer object           *)
(* (ecma-arraybuffer-object.c) are modelled beside it.                     *)
(***************************************************************************)
EXTENDS Integers, Sequences, FiniteSets, TLC

VARIABLES
  source,      \* the immutable source buffer [source_start, source_end_p), as bytes
  tail,        \* the bytes of memory that follow the buffer (read only by overruns)
  context,     \* parser_context_t
  saved,       \* a lit_location the parser kept from an earlier token
  result,      \* what the last call returned / did (the caller's view)
  history,     \* the tokens lexer_next_token returned so far
  arraybuffer  \* an ArrayBuffer object, and the calls of its free callback

vars == <<source, tail, context, saved, result, history, arraybuffer>>

(***************************************************************************)
(* Bounds of the model.                                                    *)
(***************************************************************************)
MaxCalls == 9
MaxLiterals == 3
MaxOperatorTail == 3
CompareStepLimit == 12
MaxPieces == 2
MaxGap == 3
MaxIndent == 17
MaxRegexpBody == 4
MaxRegexpFlags == 4

(***************************************************************************)
(* Characters.  The source is a sequence of bytes (0..255); Ord gives the  *)
(* ASCII code of a one-character string; the grave accent (96) is written *)
(* "backtick".                                                             *)
(***************************************************************************)
AsciiTable ==
  << " ", "!", "\"", "#", "$", "%", "&", "'", "(", ")", "*", "+", ",", "-", ".", "/",
     "0", "1", "2", "3", "4", "5", "6", "7", "8", "9", ":", ";", "<", "=", ">", "?",
     "@", "A", "B", "C", "D", "E", "F", "G", "H", "I", "J", "K", "L", "M", "N", "O",
     "P", "Q", "R", "S", "T", "U", "V", "W", "X", "Y", "Z", "[", "\\", "]", "^", "_",
     "backtick", "a", "b", "c", "d", "e", "f", "g", "h", "i", "j", "k", "l", "m", "n", "o",
     "p", "q", "r", "s", "t", "u", "v", "w", "x", "y", "z", "{", "|", "}", "~" >>

OrdTable == [ch \in {AsciiTable[i] : i \in 1..Len(AsciiTable)} |->
               31 + (CHOOSE i \in 1..Len(AsciiTable) : AsciiTable[i] = ch)]

Ord(ch) == OrdTable[ch]

\* The bytes of a text given as a tuple of one-character strings.
Bytes(text) == [i \in 1..Len(text) |-> Ord(text[i])]

\* Bitwise helpers on bytes.
BitOr20(b) == IF (b \div 32) % 2 = 1 THEN b ELSE b + 32

IS_UTF8_INTERMEDIATE_OCTET(b) == b \div 64 = 2

LEXER_TAB == 9
LEXER_NEWLINE_LF == 10
LEXER_NEWLINE_CR == 13
LEXER_NEWLINE_LS_PS_BYTE_1 == 226
LEXER_UTF8_4BYTE_START == 240

(***************************************************************************)
(* Memory.  source_p and every char_p are offsets from the start of the    *)
(* source buffer; source_end_p is Len(source).  A read at or beyond         *)
(* source_end_p is an overrun: it yields whatever follows the buffer.      *)
(***************************************************************************)
source_end_p == Len(source)

Byte(p) ==
  IF p < 0 THEN 0
  ELSE IF p < Len(source) THEN source[p + 1]
  ELSE tail[((p - Len(source)) % Len(tail)) + 1]

LEXER_NEWLINE_LS_PS_BYTE_23(p) ==
  Byte(p + 1) = 128 /\ (Byte(p + 2) = 168 \/ Byte(p + 2) = 169)

\* parser_raise_error: the compilation is aborted with the given error kind.
parser_raise_error(c, kind) == [c EXCEPT !.error = kind]

Failed(c) == c.error # "none"

(***************************************************************************)
(* Character classification (util_is_identifier_start and friends).        *)
(***************************************************************************)
IsAsciiLetter(ch) == (BitOr20(ch) >= Ord("a") /\ BitOr20(ch) <= Ord("z"))

IsDecimalDigit(ch) == ch >= Ord("0") /\ ch <= Ord("9")

\* Code points above 127 that are white space or line terminators, not letters.
NonLetterCodePoints == {160, 8232, 8233, 65279}

util_is_identifier_start_character(chr) ==
  IF chr <= 127
    THEN IsAsciiLetter(chr) \/ chr = Ord("$") \/ chr = Ord("_")
    ELSE chr \notin NonLetterCodePoints

util_is_identifier_part_character(chr) ==
  IF chr <= 127
    THEN IsAsciiLetter(chr) \/ IsDecimalDigit(chr) \/ chr = Ord("$") \/ chr = Ord("_")
    ELSE chr \notin NonLetterCodePoints

\* The code point of the UTF-8 sequence that starts at p (1 to 3 bytes).
Utf8CodePointAt(p) ==
  LET b == Byte(p) IN
  IF b < 128 THEN b
  ELSE IF b < 224 THEN (b % 32) * 64 + (Byte(p + 1) % 64)
  ELSE (b % 16) * 4096 + (Byte(p + 1) % 64) * 64 + (Byte(p + 2) % 64)

util_is_identifier_start(p) == util_is_identifier_start_character(Utf8CodePointAt(p))

util_is_identifier_part(p) == util_is_identifier_part_character(Utf8CodePointAt(p))

util_get_utf8_length(chr) ==
  IF chr < 128 THEN 1 ELSE IF chr < 2048 THEN 2 ELSE 3

\* The bytes util_to_utf8_bytes writes for a 16 bit character.
util_to_utf8_bytes(chr) ==
  IF chr < 128 THEN <<chr>>
  ELSE IF chr < 2048 THEN <<192 + (chr \div 64), 128 + (chr % 64)>>
  ELSE <<224 + (chr \div 4096), 128 + ((chr \div 64) % 64), 128 + (chr % 64)>>

\* A tab taken for a character one column wide.
align_column_to_tab_OneColumn(column) == column + 1

(***************************************************************************)
(* align_column_to_tab: ((column + 7) & ~7) + 1.                           *)
(***************************************************************************)
align_column_to_tab(column) == ((column + 7) \div 8) * 8 + 1

(***************************************************************************)
(* lexer_hex_to_character: the value of `length` hex digits at p, or -1    *)
(* when a byte is not a hex digit (PARSER_ERR_INVALID_ESCAPE_SEQUENCE).    *)
(***************************************************************************)
\* The digit value that knows no upper case letters.
HexDigitValue_NoUpperCase(b) ==
  IF b >= Ord("0") /\ b <= Ord("9") THEN b - Ord("0")
  ELSE IF b >= Ord("a") /\ b <= Ord("f") THEN b - (Ord("a") - 10)
  ELSE -1

HexDigitValue(b) ==
  IF b >= Ord("0") /\ b <= Ord("9") THEN b - Ord("0")
  ELSE IF BitOr20(b) >= Ord("a") /\ BitOr20(b) <= Ord("f") THEN BitOr20(b) - (Ord("a") - 10)
  ELSE -1

RECURSIVE HexLoop(_, _, _)
HexLoop(p, length, acc) ==
  LET v == HexDigitValue(Byte(p)) IN
  IF v < 0 THEN -1
  ELSE IF length - 1 > 0 THEN HexLoop(p + 1, length - 1, acc * 16 + v)
  ELSE (acc * 16 + v) % 65536

lexer_hex_to_character(p, length) == HexLoop(p, length, 0)

(***************************************************************************)
(* lexer_skip_spaces.                                                      *)
(***************************************************************************)
AfterNewline(mode) ==
  IF mode = "LEXER_SKIP_SINGLE_LINE_COMMENT" THEN "LEXER_SKIP_SPACES" ELSE mode

\* The line feed after a carriage return left for the next turn of the loop.
NewlineLastByte_CrAlone(p) == p

\* The last byte of the line terminator that starts with the CR or LF at p:
\* a line feed after a carriage return belongs to it (lines 112-119).
NewlineLastByte(p) ==
  IF Byte(p) = LEXER_NEWLINE_CR /\ p + 1 < source_end_p /\ Byte(p + 1) = LEXER_NEWLINE_LF
    THEN p + 1 ELSE p

RECURSIVE SkipLoop(_, _)
SkipLoop(c, mode) ==
  LET p == c.source_p
      b == Byte(p)
      \* the statements after the switch: leave, or step over a comment byte
      AfterSwitch ==
        IF mode = "LEXER_SKIP_SPACES" THEN c
        ELSE SkipLoop([c EXCEPT !.source_p = p + 1,
                                !.column = IF p + 1 < source_end_p
                                              /\ IS_UTF8_INTERMEDIATE_OCTET(Byte(p + 1))
                                           THEN @ + 1 ELSE @],
                      mode)
  IN
  IF p >= source_end_p THEN
    IF mode = "LEXER_SKIP_MULTI_LINE_COMMENT"
      THEN parser_raise_error(c, "PARSER_ERR_UNTERMINATED_MULTILINE_COMMENT")
      ELSE c
  ELSE IF b = LEXER_NEWLINE_CR \/ b = LEXER_NEWLINE_LF THEN
    LET q == NewlineLastByte(p)
    IN SkipLoop([c EXCEPT !.line = @ + 1,
                          !.column = 1,
                          !.token.flags = {"LEXER_WAS_NEWLINE"},
                          !.source_p = q + 1],
                AfterNewline(mode))
  ELSE IF b = 11 \/ b = 12 \/ b = 32 THEN
    SkipLoop([c EXCEPT !.source_p = p + 1, !.column = @ + 1], mode)
  ELSE IF b = LEXER_TAB THEN
    SkipLoop([c EXCEPT !.column = align_column_to_tab(@), !.source_p = p + 1], mode)
  ELSE IF b = Ord("/") THEN
    IF mode = "LEXER_SKIP_SPACES" /\ p + 1 < source_end_p /\ Byte(p + 1) = Ord("/") THEN
      SkipLoop([c EXCEPT !.source_p = p + 2, !.column = @ + 2],
               "LEXER_SKIP_SINGLE_LINE_COMMENT")
    ELSE IF mode = "LEXER_SKIP_SPACES" /\ p + 1 < source_end_p /\ Byte(p + 1) = Ord("*") THEN
      SkipLoop([c EXCEPT !.token.line = c.line,
                         !.token.column = c.column,
                         !.source_p = p + 2,
                         !.column = @ + 2],
               "LEXER_SKIP_MULTI_LINE_COMMENT")
    ELSE AfterSwitch
  ELSE IF b = Ord("*") THEN
    IF mode = "LEXER_SKIP_MULTI_LINE_COMMENT" /\ p + 1 < source_end_p /\ Byte(p + 1) = Ord("/")
      THEN SkipLoop([c EXCEPT !.source_p = p + 2, !.column = @ + 2], "LEXER_SKIP_SPACES")
      ELSE AfterSwitch
  ELSE IF b = 194 THEN
    IF p + 1 < source_end_p /\ Byte(p + 1) = 160
      THEN SkipLoop([c EXCEPT !.source_p = p + 2, !.column = @ + 1], mode)
      ELSE AfterSwitch
  ELSE IF b = LEXER_NEWLINE_LS_PS_BYTE_1 THEN
    IF LEXER_NEWLINE_LS_PS_BYTE_23(p)
      THEN SkipLoop([c EXCEPT !.source_p = p + 3,
                              !.line = @ + 1,
                              !.column = 1,
                              !.token.flags = {"LEXER_WAS_NEWLINE"}],
                    AfterNewline(mode))
      ELSE AfterSwitch
  ELSE IF b = 239 THEN
    IF p + 2 < source_end_p /\ Byte(p + 1) = 187 /\ Byte(p + 2) = 191
      THEN SkipLoop([c EXCEPT !.source_p = p + 3, !.column = @ + 1], mode)
      ELSE AfterSwitch
  ELSE AfterSwitch

\* lexer_skip_spaces returning at once.
lexer_skip_spaces_Nothing(c) == c

\* lexer_skip_spaces counting a column when it stops at the end of the input.
lexer_skip_spaces_ColumnAtEnd(c) ==
  LET skipped == IF "LEXER_NO_SKIP_SPACES" \in c.token.flags
                   THEN [c EXCEPT !.token.flags = @ \ {"LEXER_NO_SKIP_SPACES"}]
                   ELSE SkipLoop([c EXCEPT !.token.flags = {}], "LEXER_SKIP_SPACES")
  IN IF skipped.source_p >= source_end_p /\ ~Failed(skipped)
       THEN [skipped EXCEPT !.column = @ + 1]
       ELSE skipped

\* lexer_skip_spaces returning at once without clearing LEXER_NO_SKIP_SPACES.
lexer_skip_spaces_KeepsFlag(c) ==
  IF "LEXER_NO_SKIP_SPACES" \in c.token.flags
    THEN c
    ELSE SkipLoop([c EXCEPT !.token.flags = {}], "LEXER_SKIP_SPACES")

lexer_skip_spaces(c) ==
  IF "LEXER_NO_SKIP_SPACES" \in c.token.flags
    THEN [c EXCEPT !.token.flags = @ \ {"LEXER_NO_SKIP_SPACES"}]
    ELSE SkipLoop([c EXCEPT !.token.flags = {}], "LEXER_SKIP_SPACES")

(***************************************************************************)
(* Keyword tables: one sorted list per keyword length, 2 to 10.            *)
(***************************************************************************)
keywords_with_length_2 ==
  << [keyword_p |-> Bytes(<<"d", "o">>), type |-> "LEXER_KEYW_DO"],
     [keyword_p |-> Bytes(<<"i", "f">>), type |-> "LEXER_KEYW_IF"],
     [keyword_p |-> Bytes(<<"i", "n">>), type |-> "LEXER_KEYW_IN"] >>

keywords_with_length_3 ==
  << [keyword_p |-> Bytes(<<"f", "o", "r">>), type |-> "LEXER_KEYW_FOR"],
     [keyword_p |-> Bytes(<<"l", "e", "t">>), type |-> "LEXER_KEYW_LET"],
     [keyword_p |-> Bytes(<<"n", "e", "w">>), type |-> "LEXER_KEYW_NEW"],
     [keyword_p |-> Bytes(<<"t", "r", "y">>), type |-> "LEXER_KEYW_TRY"],
     [keyword_p |-> Bytes(<<"v", "a", "r">>), type |-> "LEXER_KEYW_VAR"] >>

keywords_with_length_4 ==
  << [keyword_p |-> Bytes(<<"c", "a", "s", "e">>), type |-> "LEXER_KEYW_CASE"],
     [keyword_p |-> Bytes(<<"e", "l", "s", "e">>), type |-> "LEXER_KEYW_ELSE"],
     [keyword_p |-> Bytes(<<"e", "n", "u", "m">>), type |-> "LEXER_KEYW_ENUM"],
     [keyword_p |-> Bytes(<<"n", "u", "l", "l">>), type |-> "LEXER_LIT_NULL"],
     [keyword_p |-> Bytes(<<"t", "h", "i", "s">>), type |-> "LEXER_KEYW_THIS"],
     [keyword_p |-> Bytes(<<"t", "r", "u", "e">>), type |-> "LEXER_LIT_TRUE"],
     [keyword_p |-> Bytes(<<"v", "o", "i", "d">>), type |-> "LEXER_KEYW_VOID"],
     [keyword_p |-> Bytes(<<"w", "i", "t", "h">>), type |-> "LEXER_KEYW_WITH"] >>

keywords_with_length_5 ==
  << [keyword_p |-> Bytes(<<"a", "w", "a", "i", "t">>), type |-> "LEXER_KEYW_AWAIT"],
     [keyword_p |-> Bytes(<<"b", "r", "e", "a", "k">>), type |-> "LEXER_KEYW_BREAK"],
     [keyword_p |-> Bytes(<<"c", "a", "t", "c", "h">>), type |-> "LEXER_KEYW_CATCH"],
     [keyword_p |-> Bytes(<<"c", "l", "a", "s", "s">>), type |-> "LEXER_KEYW_CLASS"],
     [keyword_p |-> Bytes(<<"c", "o", "n", "s", "t">>), type |-> "LEXER_KEYW_CONST"],
     [keyword_p |-> Bytes(<<"f", "a", "l", "s", "e">>), type |-> "LEXER_LIT_FALSE"],
     [keyword_p |-> Bytes(<<"s", "u", "p", "e", "r">>), type |-> "LEXER_KEYW_SUPER"],
     [keyword_p |-> Bytes(<<"t", "h", "r", "o", "w">>), type |-> "LEXER_KEYW_THROW"],
     [keyword_p |-> Bytes(<<"w", "h", "i", "l", "e">>), type |-> "LEXER_KEYW_WHILE"],
     [keyword_p |-> Bytes(<<"y", "i", "e", "l", "d">>), type |-> "LEXER_KEYW_YIELD"] >>

keywords_with_length_6 ==
  << [keyword_p |-> Bytes(<<"d", "e", "l", "e", "t", "e">>), type |-> "LEXER_KEYW_DELETE"],
     [keyword_p |-> Bytes(<<"e", "x", "p", "o", "r", "t">>), type |-> "LEXER_KEYW_EXPORT"],
     [keyword_p |-> Bytes(<<"i", "m", "p", "o", "r", "t">>), type |-> "LEXER_KEYW_IMPORT"],
     [keyword_p |-> Bytes(<<"p", "u", "b", "l", "i", "c">>), type |-> "LEXER_KEYW_PUBLIC"],
     [keyword_p |-> Bytes(<<"r", "e", "t", "u", "r", "n">>), type |-> "LEXER_KEYW_RETURN"],
     [keyword_p |-> Bytes(<<"s", "t", "a", "t", "i", "c">>), type |-> "LEXER_KEYW_STATIC"],
     [keyword_p |-> Bytes(<<"s", "w", "i", "t", "c", "h">>), type |-> "LEXER_KEYW_SWITCH"],
     [keyword_p |-> Bytes(<<"t", "y", "p", "e", "o", "f">>), type |-> "LEXER_KEYW_TYPEOF"] >>

keywords_with_length_7 ==
  << [keyword_p |-> Bytes(<<"d", "e", "f", "a", "u", "l", "t">>), type |-> "LEXER_KEYW_DEFAULT"],
     [keyword_p |-> Bytes(<<"e", "x", "t", "e", "n", "d", "s">>), type |-> "LEXER_KEYW_EXTENDS"],
     [keyword_p |-> Bytes(<<"f", "i", "n", "a", "l", "l", "y">>), type |-> "LEXER_KEYW_FINALLY"],
     [keyword_p |-> Bytes(<<"p", "a", "c", "k", "a", "g", "e">>), type |-> "LEXER_KEYW_PACKAGE"],
     [keyword_p |-> Bytes(<<"p", "r", "i", "v", "a", "t", "e">>), type |-> "LEXER_KEYW_PRIVATE"] >>

keywords_with_length_8 ==
  << [keyword_p |-> Bytes(<<"c", "o", "n", "t", "i", "n", "u", "e">>), type |-> "LEXER_KEYW_CONTINUE"],
     [keyword_p |-> Bytes(<<"d", "e", "b", "u", "g", "g", "e", "r">>), type |-> "LEXER_KEYW_DEBUGGER"],
     [keyword_p |-> Bytes(<<"f", "u", "n", "c", "t", "i", "o", "n">>), type |-> "LEXER_KEYW_FUNCTION"] >>

keywords_with_length_9 ==
  << [keyword_p |-> Bytes(<<"i", "n", "t", "e", "r", "f", "a", "c", "e">>), type |-> "LEXER_KEYW_INTERFACE"],
     [keyword_p |-> Bytes(<<"p", "r", "o", "t", "e", "c", "t", "e", "d">>), type |-> "LEXER_KEYW_PROTECTED"] >>

keywords_with_length_10 ==
  << [keyword_p |-> Bytes(<<"i", "m", "p", "l", "e", "m", "e", "n", "t", "s">>), type |-> "LEXER_KEYW_IMPLEMENTS"],
     [keyword_p |-> Bytes(<<"i", "n", "s", "t", "a", "n", "c", "e", "o", "f">>), type |-> "LEXER_KEYW_INSTANCEOF"] >>

keyword_strings_list ==
  << keywords_with_length_2,
     keywords_with_length_3,
     keywords_with_length_4,
     keywords_with_length_5,
     keywords_with_length_6,
     keywords_with_length_7,
     keywords_with_length_8,
     keywords_with_length_9,
     keywords_with_length_10 >>

keyword_lengths_list == [i \in 1..Len(keyword_strings_list) |-> Len(keyword_strings_list[i])]

\* The group of future strict reserved words started one enumerator late.
FutureStrictReservedWords_StartsLate ==
  { "LEXER_KEYW_LET", "LEXER_KEYW_PRIVATE", "LEXER_KEYW_PUBLIC",
    "LEXER_KEYW_YIELD", "LEXER_KEYW_INTERFACE", "LEXER_KEYW_PACKAGE",
    "LEXER_KEYW_PROTECTED", "LEXER_KEYW_STATIC" }

\* The token types at or above LEXER_FIRST_FUTURE_STRICT_RESERVED_WORD.
FutureStrictReservedWords ==
  { "LEXER_KEYW_IMPLEMENTS", "LEXER_KEYW_LET", "LEXER_KEYW_PRIVATE", "LEXER_KEYW_PUBLIC",
    "LEXER_KEYW_YIELD", "LEXER_KEYW_INTERFACE", "LEXER_KEYW_PACKAGE",
    "LEXER_KEYW_PROTECTED", "LEXER_KEYW_STATIC" }

PARSER_MAXIMUM_IDENT_LENGTH == 255
PARSER_MAXIMUM_STRING_LENGTH == 65535

\* The loops over the bytes of a literal take a run of ASCII letters and
\* digits in one step: each of them, followed by another, makes one
\* iteration that advances the pointer and the counters by one.  The last
\* byte of the run is left to the iteration proper.
AsciiLetterOrDigit(byte) == IsAsciiLetter(byte) \/ IsDecimalDigit(byte)

AsciiRun(p) ==
  LET stops == { r \in p..source_end_p : r = source_end_p \/ ~AsciiLetterOrDigit(Byte(r)) }
      first == CHOOSE r \in stops : \A q \in stops : r <= q
  IN IF p < source_end_p /\ first > p THEN first - p - 1 ELSE 0

\* memcmp of the n source bytes at p with the byte sequence bytes: -1, 0 or 1.
RECURSIVE memcmp_source(_, _, _, _)
memcmp_source(p, bytes, i, n) ==
  IF i > n THEN 0
  ELSE IF Byte(p + i - 1) < bytes[i] THEN -1
  ELSE IF Byte(p + i - 1) > bytes[i] THEN 1
  ELSE memcmp_source(p, bytes, i + 1, n)

(***************************************************************************)
(* lexer_parse_identifier.  IdentifierLoop is the do-while loop that scans *)
(* the identifier; its state is the context and the locals source_p,       *)
(* column and length.                                                      *)
(***************************************************************************)
RECURSIVE SkipIntermediateOctets(_)
SkipIntermediateOctets(p) ==
  IF p < source_end_p /\ IS_UTF8_INTERMEDIATE_OCTET(Byte(p))
    THEN SkipIntermediateOctets(p + 1)
    ELSE p

RECURSIVE IdentifierLoop(_, _, _, _)
IdentifierLoop(c, p, column, length) ==
  LET Again(c1, p1, column1, length1) ==
        IF p1 < source_end_p /\ (util_is_identifier_part(p1) \/ Byte(p1) = Ord("\\"))
          THEN IdentifierLoop(c1, p1, column1, length1)
          ELSE [c |-> c1, source_p |-> p1, column |-> column1, length |-> length1]
      Stop(c1) == [c |-> c1, source_p |-> p, column |-> column, length |-> length]
      Escape(c1, character) ==
        IF p + 6 > source_end_p \/ Byte(p + 1) # Ord("u")
          THEN Stop(parser_raise_error(c1, "PARSER_ERR_INVALID_UNICODE_ESCAPE_SEQUENCE"))
        ELSE IF character < 0
          THEN Stop(parser_raise_error(c1, "PARSER_ERR_INVALID_ESCAPE_SEQUENCE"))
        ELSE IF length = 0 /\ ~util_is_identifier_start_character(character)
          THEN Stop(parser_raise_error(c1, "PARSER_ERR_INVALID_IDENTIFIER_START"))
        ELSE IF length # 0 /\ ~util_is_identifier_part_character(character)
          THEN Stop(parser_raise_error(c1, "PARSER_ERR_INVALID_IDENTIFIER_PART"))
        ELSE Again(c1, p + 6, column + 6, length + util_get_utf8_length(character))
      Plain(q) == Again(c, q, column + 1, length + (q - p))
      run == AsciiRun(p)
  IN
  IF run > 0
    THEN IdentifierLoop(c, p + run, column + run, length + run)
  ELSE IF Byte(p) = Ord("\\")
    THEN Escape([c EXCEPT !.token.lit_location.has_escape = TRUE,
                          !.source_p = p,
                          !.token.column = column],
                lexer_hex_to_character(p + 2, 4))
    ELSE Plain(SkipIntermediateOctets(p + 1))

\* The binary search with the upper bound moved below the middle entry.
RECURSIVE KeywordSearch_EndBelowMiddle(_, _, _, _, _, _)
KeywordSearch_EndBelowMiddle(keyword_list_p, ident_start_p, length, start, end, middle) ==
  LET keyword_p == keyword_list_p[middle + 1]
      first == Byte(ident_start_p) - keyword_p.keyword_p[1]
      compare_result == IF first = 0
                          THEN memcmp_source(ident_start_p, keyword_p.keyword_p, 1, length)
                          ELSE first
      start1 == IF compare_result > 0 THEN middle + 1 ELSE start
      end1 == IF compare_result > 0 THEN end ELSE middle - 1
  IN
  IF compare_result = 0 THEN keyword_p.type
  ELSE IF start1 < end1
    THEN KeywordSearch_EndBelowMiddle(keyword_list_p, ident_start_p, length, start1, end1,
                                      (start1 + end1) \div 2)
    ELSE "none"

\* The binary search of the keyword list for the identifier at ident_start_p.
\* Returns the matching entry's token type, or "none".
RECURSIVE KeywordSearch(_, _, _, _, _, _)
KeywordSearch(keyword_list_p, ident_start_p, length, start, end, middle) ==
  LET keyword_p == keyword_list_p[middle + 1]
      first == Byte(ident_start_p) - keyword_p.keyword_p[1]
      compare_result == IF first = 0
                          THEN memcmp_source(ident_start_p, keyword_p.keyword_p, 1, length)
                          ELSE first
      start1 == IF compare_result > 0 THEN middle + 1 ELSE start
      end1 == IF compare_result > 0 THEN end ELSE middle
  IN
  IF compare_result = 0 THEN keyword_p.type
  ELSE IF start1 < end1
    THEN KeywordSearch(keyword_list_p, ident_start_p, length, start1, end1,
                       (start1 + end1) \div 2)
    ELSE "none"

lexer_parse_identifier(c, check_keywords) ==
  LET ident_start_p == c.source_p
      \* lines 576-584: fill the literal data, move the cursor
      Fill(c2, scan) ==
        IF Failed(c2) THEN c2
        ELSE [c2 EXCEPT !.token.lit_location =
                           IF c2.token.type = "LEXER_LITERAL"
                             THEN [@ EXCEPT !.char_p = ident_start_p, !.length = scan.length]
                             ELSE @,
                        !.source_p = scan.source_p,
                        !.column = scan.column]
      \* lines 543-558: the identifier equals a keyword
      Classify(c1, keyword) ==
        IF keyword = "none" THEN c1
        ELSE IF keyword \in FutureStrictReservedWords
          THEN IF "PARSER_IS_STRICT" \in c1.status_flags
                 THEN parser_raise_error(c1, "PARSER_ERR_STRICT_IDENT_NOT_ALLOWED")
                 ELSE [c1 EXCEPT !.token.literal_is_reserved = TRUE]
          ELSE [c1 EXCEPT !.token.type = keyword]
      \* lines 515-574
      Check(c1, scan) ==
        IF scan.length > PARSER_MAXIMUM_IDENT_LENGTH
          THEN parser_raise_error(c1, "PARSER_ERR_IDENTIFIER_TOO_LONG")
          ELSE Fill(Classify(c1,
                             IF check_keywords /\ ~c1.token.lit_location.has_escape
                                  /\ scan.length >= 2 /\ scan.length <= 10
                               THEN KeywordSearch(keyword_strings_list[scan.length - 1],
                                                  ident_start_p, scan.length, 0,
                                                  keyword_lengths_list[scan.length - 1],
                                                  keyword_lengths_list[scan.length - 1] \div 2)
                               ELSE "none"),
                    scan)
      Scanned(scan) ==
        IF Failed(scan.c) THEN scan.c
        ELSE Check([scan.c EXCEPT !.source_p = ident_start_p, !.token.column = c.column], scan)
  IN
  Scanned(IdentifierLoop([c EXCEPT !.token.type = "LEXER_LITERAL",
                                   !.token.literal_is_reserved = FALSE,
                                   !.token.lit_location.type = "LEXER_IDENT_LITERAL",
                                   !.token.lit_location.has_escape = FALSE],
                         c.source_p, c.column, 0))

(***************************************************************************)
(* lexer_parse_string.  StringLoop is the scanning loop; its state is the  *)
(* context and the locals source_p, line, column, length and has_escape.   *)
(***************************************************************************)
IsOctalDigit(b) == b >= Ord("0") /\ b <= Ord("7")

\* The line feed after a carriage return taken for a line terminator of
\* its own.
TemplateLineFeedFollows_Never(p) == FALSE

\* After a carriage return in a template literal, at p: a line feed that
\* belongs to the same line terminator.
TemplateLineFeedFollows(p) == p < source_end_p /\ Byte(p) = LEXER_NEWLINE_LF

\* The error reported where the scan stopped.
UnterminatedString_AtCursor(c, s, line, column) ==
  parser_raise_error([c EXCEPT !.token.line = line, !.token.column = column - 1],
                     "PARSER_ERR_UNTERMINATED_STRING")

\* The input ends inside the string: the error is reported at the opening
\* quote, not at the line and column the scan has reached.
UnterminatedString(c, s, line, column) ==
  parser_raise_error([c EXCEPT !.token.line = s.original_line,
                               !.token.column = s.original_column - 1],
                     "PARSER_ERR_UNTERMINATED_STRING")

\* The segment keeping the dollar sign in its length.
TemplateSegmentLength_KeepsDollar(length) == length

\* A template segment that ends at "${": the dollar sign, counted as a
\* character when it was scanned, is not part of the segment.
TemplateSegmentLength(length) == length - 1

RECURSIVE StringLoop(_, _, _, _, _, _, _)
StringLoop(c, s, p, line, column, length, has_escape) ==
  LET Out(c1, p1, line1, column1, length1, esc1) ==
        [c |-> c1, source_p |-> p1, line |-> line1, column |-> column1,
         length |-> length1, has_escape |-> esc1]
      \* the statements at the end of the loop body: one character is content
      Content(q, column1, esc1) ==
        LET Step(r) == StringLoop(c, s, r, line, column1 + 1, length + (r - q), esc1)
        IN Step(SkipIntermediateOctets(q + 1))
      \* the if / else-if chain after the escape handling, for the byte at q
      Chain(q, column1, esc1) ==
        IF Byte(q) >= LEXER_UTF8_4BYTE_START THEN
          StringLoop(c, s, q + 4, line, column1 + 1, length + 6, TRUE)
        ELSE IF Byte(q) = LEXER_TAB THEN
          Content(q, align_column_to_tab(column1) - 1, esc1)
        ELSE IF s.str_end_character = Ord("backtick") THEN
          IF Byte(q) = Ord("{") /\ Byte(q - 1) = Ord("$") /\ Byte(q - 2) # Ord("\\") THEN
            Out(c, q, line, column1, TemplateSegmentLength(length), esc1)
          ELSE IF Byte(q) = LEXER_NEWLINE_CR THEN
            IF TemplateLineFeedFollows(q + 1)
              THEN StringLoop(c, s, q + 2, line + 1, 1, length + 2, esc1)
              ELSE StringLoop(c, s, q + 1, line + 1, 1, length + 1, esc1)
          ELSE IF Byte(q) = LEXER_NEWLINE_LF THEN
            StringLoop(c, s, q + 1, line + 1, 1, length + 1, esc1)
          ELSE IF Byte(q) = LEXER_NEWLINE_LS_PS_BYTE_1 /\ LEXER_NEWLINE_LS_PS_BYTE_23(q) THEN
            StringLoop(c, s, q + 3, line + 1, 1, length + 3, esc1)
          ELSE Content(q, column1, esc1)
        ELSE IF Byte(q) = LEXER_NEWLINE_CR \/ Byte(q) = LEXER_NEWLINE_LF
                \/ (Byte(q) = LEXER_NEWLINE_LS_PS_BYTE_1 /\ LEXER_NEWLINE_LS_PS_BYTE_23(q)) THEN
          Out(parser_raise_error([c EXCEPT !.token.line = line, !.token.column = column1],
                                 "PARSER_ERR_NEWLINE_NOT_ALLOWED"),
              q, line, column1, length, esc1)
        ELSE Content(q, column1, esc1)
      \* the byte after a backslash, at q
      Escape(q) ==
        LET b == Byte(q)
            strict == "PARSER_IS_STRICT" \in c.status_flags
            octal2 == q + 1 < source_end_p /\ IsOctalDigit(Byte(q + 1))
            octal3 == octal2 /\ q + 2 < source_end_p /\ IsOctalDigit(Byte(q + 2))
            hex_part_length == IF b = Ord("x") THEN 2 ELSE 4
            Hex(c1, character) ==
              IF q + 1 + hex_part_length > source_end_p \/ character < 0 THEN
                Out(parser_raise_error(c1, "PARSER_ERR_INVALID_ESCAPE_SEQUENCE"),
                    q, line, column + 1, length, TRUE)
              ELSE StringLoop(c1, s, q + hex_part_length + 1, line,
                              column + 1 + hex_part_length + 1,
                              length + util_get_utf8_length(character), TRUE)
        IN
        IF b = LEXER_NEWLINE_CR THEN
          IF q + 1 < source_end_p /\ Byte(q + 1) = LEXER_NEWLINE_LF
            THEN StringLoop(c, s, q + 2, line + 1, 1, length, TRUE)
            ELSE StringLoop(c, s, q + 1, line + 1, 1, length, TRUE)
        ELSE IF b = LEXER_NEWLINE_LF THEN
          StringLoop(c, s, q + 1, line + 1, 1, length, TRUE)
        ELSE IF b = LEXER_NEWLINE_LS_PS_BYTE_1 /\ LEXER_NEWLINE_LS_PS_BYTE_23(q) THEN
          StringLoop(c, s, q + 3, line + 1, 1, length, TRUE)
        ELSE IF b >= Ord("0") /\ b <= Ord("3") THEN
          IF strict THEN
            Out(parser_raise_error(c, "PARSER_ERR_OCTAL_ESCAPE_NOT_ALLOWED"),
                q, line, column + 1, length, TRUE)
          ELSE IF octal3 THEN
            StringLoop(c, s, q + 3, line, column + 4,
                       length + (IF b >= Ord("2") THEN 2 ELSE 1), TRUE)
          ELSE IF octal2 THEN StringLoop(c, s, q + 2, line, column + 3, length + 1, TRUE)
          ELSE StringLoop(c, s, q + 1, line, column + 2, length + 1, TRUE)
        ELSE IF b >= Ord("4") /\ b <= Ord("7") THEN
          IF strict THEN
            Out(parser_raise_error(c, "PARSER_ERR_OCTAL_ESCAPE_NOT_ALLOWED"),
                q, line, column + 1, length, TRUE)
          ELSE IF octal2 THEN StringLoop(c, s, q + 2, line, column + 3, length + 1, TRUE)
          ELSE StringLoop(c, s, q + 1, line, column + 2, length + 1, TRUE)
        ELSE IF b = Ord("x") \/ b = Ord("u") THEN
          Hex([c EXCEPT !.token.line = line, !.token.column = column],
              lexer_hex_to_character(q + 1, hex_part_length))
        ELSE Chain(q, column + 1, TRUE)
      run == AsciiRun(p)
  IN
  IF run > 0 THEN
    StringLoop(c, s, p + run, line, column + run, length + run, has_escape)
  ELSE IF p >= source_end_p THEN
    Out(UnterminatedString(c, s, line, column), p, line, column, length, has_escape)
  ELSE IF Byte(p) = s.str_end_character THEN
    Out(c, p, line, column, length, has_escape)
  ELSE IF Byte(p) = Ord("\\") THEN
    IF p + 1 >= source_end_p
      THEN StringLoop(c, s, p + 1, line, column + 1, length, has_escape)
      ELSE Escape(p + 1)
  ELSE Chain(p, column, has_escape)

lexer_parse_string(c) ==
  LET str_end_character == IF Byte(c.source_p) = Ord("}")
                             THEN Ord("backtick") ELSE Byte(c.source_p)
      string_start_p == c.source_p + 1
      Scanned(scan) ==
        IF Failed(scan.c) THEN scan.c
        ELSE IF scan.length > PARSER_MAXIMUM_STRING_LENGTH
          THEN parser_raise_error(scan.c, "PARSER_ERR_STRING_TOO_LONG")
        ELSE [scan.c EXCEPT !.token.type = IF str_end_character # Ord("backtick")
                                             THEN "LEXER_LITERAL"
                                             ELSE "LEXER_TEMPLATE_LITERAL",
                            !.token.lit_location = [char_p |-> string_start_p,
                                                    length |-> scan.length,
                                                    type |-> "LEXER_STRING_LITERAL",
                                                    has_escape |-> scan.has_escape],
                            !.source_p = scan.source_p + 1,
                            !.line = scan.line,
                            !.column = scan.column + 1]
  IN
  Scanned(StringLoop(c, [str_end_character |-> str_end_character,
                         original_line |-> c.line,
                         original_column |-> c.column + 1],
                     string_start_p, c.line, c.column + 1, 0, FALSE))

\* The letters a to f and A to F not taken for digits.
lexer_is_hex_digit_DecimalOnly(character) == IsDecimalDigit(character)

(***************************************************************************)
(* lexer_parse_number.                                                     *)
(***************************************************************************)
lexer_is_hex_digit(character) == HexDigitValue(character) >= 0

HexDigits == {b \in 0..255 : lexer_is_hex_digit(b)}

OctalDigits == {b \in 0..255 : IsOctalDigit(b)}

DecimalDigits == {b \in 0..255 : IsDecimalDigit(b)}

\* The first position at or after p whose byte is not in class, or source_end_p.
RECURSIVE SkipWhile(_, _)
SkipWhile(p, class) ==
  IF p < source_end_p /\ Byte(p) \in class THEN SkipWhile(p + 1, class) ELSE p

\* How the number at p starts (lines 877-929).
NumberForm(p) ==
  IF Byte(p) = Ord("0") /\ p + 1 < source_end_p
    THEN IF BitOr20(Byte(p + 1)) = Ord("x") THEN "hexadecimal"
         ELSE IF IsOctalDigit(Byte(p + 1)) THEN "octal"
         ELSE IF Byte(p + 1) >= Ord("8") /\ Byte(p + 1) <= Ord("9") THEN "invalid"
         ELSE "zero"
    ELSE "decimal"

lexer_parse_number(c) ==
  LET p == c.source_p
      \* lines 987-1002: what follows the number, its length, the cursor
      Finish(c1, number_end) ==
        IF number_end < source_end_p
             /\ (util_is_identifier_start(number_end) \/ Byte(number_end) = Ord("\\"))
          THEN parser_raise_error(c1, "PARSER_ERR_IDENTIFIER_AFTER_NUMBER")
        ELSE IF number_end - p > PARSER_MAXIMUM_IDENT_LENGTH
          THEN parser_raise_error(c1, "PARSER_ERR_NUMBER_TOO_LONG")
        ELSE [c1 EXCEPT !.token.lit_location.length = number_end - p,
                        !.column = @ + (number_end - p),
                        !.source_p = number_end]
      \* the exponent; exp_digits is the first byte after the marker and its sign
      Exponent(c1, frac_end, exp_digits) ==
        IF frac_end < source_end_p /\ BitOr20(Byte(frac_end)) = Ord("e")
          THEN IF exp_digits >= source_end_p \/ ~IsDecimalDigit(Byte(exp_digits))
                 THEN parser_raise_error(c1, "PARSER_ERR_MISSING_EXPONENT")
                 ELSE Finish(c1, SkipWhile(exp_digits + 1, DecimalDigits))
          ELSE Finish(c1, frac_end)
      Fraction(c1, frac_end) ==
        Exponent(c1, frac_end,
                 IF frac_end + 1 < source_end_p
                      /\ (Byte(frac_end + 1) = Ord("+") \/ Byte(frac_end + 1) = Ord("-"))
                   THEN frac_end + 2 ELSE frac_end + 1)
      Float(c1, int_end) ==
        Fraction(c1, IF int_end < source_end_p /\ Byte(int_end) = Ord(".")
                       THEN SkipWhile(int_end + 1, DecimalDigits)
                       ELSE int_end)
      Octal(c1, int_end) ==
        IF "PARSER_IS_STRICT" \in c.status_flags
          THEN parser_raise_error(c1, "PARSER_ERR_OCTAL_NUMBER_NOT_ALLOWED")
        ELSE IF int_end < source_end_p
                  /\ Byte(int_end) >= Ord("8") /\ Byte(int_end) <= Ord("9")
          THEN parser_raise_error(c1, "PARSER_ERR_INVALID_NUMBER")
        ELSE Finish(c1, int_end)
      Hexadecimal(c1) ==
        IF p + 2 >= source_end_p \/ ~lexer_is_hex_digit(Byte(p + 2))
          THEN parser_raise_error(c1, "PARSER_ERR_INVALID_HEX_DIGIT")
          ELSE Finish(c1, SkipWhile(p + 3, HexDigits))
      Start(c0, form) ==
        IF form = "hexadecimal"
          THEN Hexadecimal([c0 EXCEPT !.token.extra_value = "LEXER_NUMBER_HEXADECIMAL"])
        ELSE IF form = "octal"
          THEN Octal([c0 EXCEPT !.token.extra_value = "LEXER_NUMBER_OCTAL"],
                     SkipWhile(p + 1, OctalDigits))
        ELSE IF form = "invalid" THEN parser_raise_error(c0, "PARSER_ERR_INVALID_NUMBER")
        ELSE Float(c0, IF form = "zero" THEN p + 1 ELSE SkipWhile(p, DecimalDigits))
  IN
  Start([c EXCEPT !.token.type = "LEXER_LITERAL",
                  !.token.literal_is_reserved = FALSE,
                  !.token.extra_value = "LEXER_NUMBER_DECIMAL",
                  !.token.lit_location.char_p = p,
                  !.token.lit_location.type = "LEXER_NUMBER_LITERAL",
                  !.token.lit_location.has_escape = FALSE],
        NumberForm(p))

(***************************************************************************)
(* lexer_next_token.  Punctuator is the switch over the first byte: the    *)
(* token type and its length, where length is the number of bytes left.    *)
(***************************************************************************)
\* A pointer difference converted to size_t: a negative difference wraps to a
\* value larger than any source, here the largest 32 bit signed integer.
SIZE_MAX == 2147483647

SizeOfDifference(end_p, start_p) ==
  IF end_p >= start_p THEN end_p - start_p ELSE SIZE_MAX - (start_p - end_p) + 1

Tok(type, length) == [type |-> type, length |-> length]

LEXER_TYPE_A_TOKEN(type1) == Tok(type1, 1)

\* LEXER_TYPE_B_TOKEN without its test of the length left.
LEXER_TYPE_B_TOKEN_Overread(p, length, type1, char2, type2) ==
  IF Byte(p + 1) = Ord(char2) THEN Tok(type2, 2) ELSE Tok(type1, 1)

LEXER_TYPE_B_TOKEN(p, length, type1, char2, type2) ==
  IF length >= 2 /\ Byte(p + 1) = Ord(char2) THEN Tok(type2, 2) ELSE Tok(type1, 1)

LEXER_TYPE_C_TOKEN(p, length, type1, char2, type2, char3, type3) ==
  IF length >= 2 /\ Byte(p + 1) = Ord(char2) THEN Tok(type2, 2)
  ELSE IF length >= 2 /\ Byte(p + 1) = Ord(char3) THEN Tok(type3, 2)
  ELSE Tok(type1, 1)

Punctuator(p, length) ==
  LET b == Byte(p)
      b1 == Byte(p + 1)
      b2 == Byte(p + 2)
      b3 == Byte(p + 3)
  IN
  CASE b = Ord("{") -> LEXER_TYPE_A_TOKEN("LEXER_LEFT_BRACE")
    [] b = Ord("(") -> LEXER_TYPE_A_TOKEN("LEXER_LEFT_PAREN")
    [] b = Ord("[") -> LEXER_TYPE_A_TOKEN("LEXER_LEFT_SQUARE")
    [] b = Ord("}") -> LEXER_TYPE_A_TOKEN("LEXER_RIGHT_BRACE")
    [] b = Ord(")") -> LEXER_TYPE_A_TOKEN("LEXER_RIGHT_PAREN")
    [] b = Ord("]") -> LEXER_TYPE_A_TOKEN("LEXER_RIGHT_SQUARE")
    [] b = Ord(";") -> LEXER_TYPE_A_TOKEN("LEXER_SEMICOLON")
    [] b = Ord(",") -> LEXER_TYPE_A_TOKEN("LEXER_COMMA")
    [] b = Ord(".") ->
         IF length >= 2 /\ IsDecimalDigit(b1) THEN Tok("number", 0)
         ELSE IF length >= 3 /\ b1 = Ord(".") /\ b2 = Ord(".") THEN Tok("LEXER_THREE_DOTS", 3)
         ELSE Tok("LEXER_DOT", 1)
    [] b = Ord("<") ->
         IF length >= 2 /\ b1 = Ord("=") THEN Tok("LEXER_LESS_EQUAL", 2)
         ELSE IF length >= 2 /\ b1 = Ord("<") THEN
           IF length >= 3 /\ b2 = Ord("=") THEN Tok("LEXER_ASSIGN_LEFT_SHIFT", 3)
           ELSE Tok("LEXER_LEFT_SHIFT", 2)
         ELSE Tok("LEXER_LESS", 1)
    [] b = Ord(">") ->
         IF length >= 2 /\ b1 = Ord("=") THEN Tok("LEXER_GREATER_EQUAL", 2)
         ELSE IF length >= 2 /\ b1 = Ord(">") THEN
           IF length >= 3 /\ b2 = Ord("=") THEN Tok("LEXER_ASSIGN_RIGHT_SHIFT", 3)
           ELSE IF length >= 3 /\ b2 = Ord(">") THEN
             IF length >= 4 /\ b3 = Ord("=") THEN Tok("LEXER_ASSIGN_UNS_RIGHT_SHIFT", 4)
             ELSE Tok("LEXER_UNS_RIGHT_SHIFT", 3)
           ELSE Tok("LEXER_RIGHT_SHIFT", 2)
         ELSE Tok("LEXER_GREATER", 1)
    [] b = Ord("=") ->
         IF length >= 2 /\ b1 = Ord("=") THEN
           IF length >= 3 /\ b2 = Ord("=") THEN Tok("LEXER_STRICT_EQUAL", 3)
           ELSE Tok("LEXER_EQUAL", 2)
         ELSE IF length >= 2 /\ b1 = Ord(">") THEN Tok("LEXER_ARROW", 2)
         ELSE Tok("LEXER_ASSIGN", 1)
    [] b = Ord("!") ->
         IF length >= 2 /\ b1 = Ord("=") THEN
           IF length >= 3 /\ b2 = Ord("=") THEN Tok("LEXER_STRICT_NOT_EQUAL", 3)
           ELSE Tok("LEXER_NOT_EQUAL", 2)
         ELSE Tok("LEXER_LOGICAL_NOT", 1)
    [] b = Ord("+") -> LEXER_TYPE_C_TOKEN(p, length, "LEXER_ADD", "=", "LEXER_ASSIGN_ADD",
                                          "+", "LEXER_INCREASE")
    [] b = Ord("-") -> LEXER_TYPE_C_TOKEN(p, length, "LEXER_SUBTRACT", "=",
                                          "LEXER_ASSIGN_SUBTRACT", "-", "LEXER_DECREASE")
    [] b = Ord("*") -> LEXER_TYPE_B_TOKEN(p, length, "LEXER_MULTIPLY", "=",
                                          "LEXER_ASSIGN_MULTIPLY")
    [] b = Ord("/") -> LEXER_TYPE_B_TOKEN(p, length, "LEXER_DIVIDE", "=",
                                          "LEXER_ASSIGN_DIVIDE")
    [] b = Ord("%") -> LEXER_TYPE_B_TOKEN(p, length, "LEXER_MODULO", "=",
                                          "LEXER_ASSIGN_MODULO")
    [] b = Ord("&") -> LEXER_TYPE_C_TOKEN(p, length, "LEXER_BIT_AND", "=",
                                          "LEXER_ASSIGN_BIT_AND", "&", "LEXER_LOGICAL_AND")
    [] b = Ord("|") -> LEXER_TYPE_C_TOKEN(p, length, "LEXER_BIT_OR", "=",
                                          "LEXER_ASSIGN_BIT_OR", "|", "LEXER_LOGICAL_OR")
    [] b = Ord("^") -> LEXER_TYPE_B_TOKEN(p, length, "LEXER_BIT_XOR", "=",
                                          "LEXER_ASSIGN_BIT_XOR")
    [] b = Ord("~") -> LEXER_TYPE_A_TOKEN("LEXER_BIT_NOT")
    [] b = Ord("?") -> LEXER_TYPE_A_TOKEN("LEXER_QUESTION_MARK")
    [] b = Ord(":") -> LEXER_TYPE_A_TOKEN("LEXER_COLON")
    [] b = Ord("'") \/ b = Ord("\"") \/ b = Ord("backtick") -> Tok("string", 0)
    [] OTHER -> Tok("none", 0)

lexer_next_token(c) ==
  LET Operator(c2, found) ==
        IF found.type = "number" THEN lexer_parse_number(c2)
        ELSE IF found.type = "string" THEN lexer_parse_string(c2)
        ELSE IF found.type = "none"
          THEN parser_raise_error(c2, "PARSER_ERR_INVALID_CHARACTER")
        ELSE [c2 EXCEPT !.token.type = found.type,
                        !.source_p = @ + found.length,
                        !.column = @ + found.length]
      Dispatch(c2, length) ==
        IF length = 0 THEN [c2 EXCEPT !.token.type = "LEXER_EOS"]
        ELSE IF util_is_identifier_start(c2.source_p) \/ Byte(c2.source_p) = Ord("\\")
          THEN lexer_parse_identifier(c2, TRUE)
        ELSE Operator(c2, IF IsDecimalDigit(Byte(c2.source_p))
                            THEN Tok("number", 0)
                            ELSE Punctuator(c2.source_p, length))
      Skipped(c1) ==
        IF Failed(c1) THEN c1
        ELSE Dispatch([c1 EXCEPT !.token.line = c1.line, !.token.column = c1.column],
                      SizeOfDifference(source_end_p, c1.source_p))
  IN Skipped(lexer_skip_spaces(c))

\* The limit taken one too large.
PARSER_MAXIMUM_NUMBER_OF_LITERALS_OneMore == MaxLiterals + 1

(***************************************************************************)
(* The literal pool.  An entry is a lexer_literal_t: its type, prop.length, *)
(* the bytes (or the key) its value refers to, and its status flags.       *)
(* The nth entry of the list has literal index n - 1.                      *)
(***************************************************************************)
PARSER_MAXIMUM_NUMBER_OF_LITERALS == MaxLiterals

LEXER_MAX_LITERAL_LOCAL_BUFFER_SIZE == 48

CBC_PUSH_NUMBER_BYTE_RANGE_END == 256

Literal(type, length, value, status_flags) ==
  [type |-> type, length |-> length, value |-> value, status_flags |-> status_flags]

\* parser_list_append putting the new entry in front of the list.
parser_list_append_Front(c, entry) == [c EXCEPT !.literal_pool = <<entry>> \o @]

parser_list_append(c, entry) == [c EXCEPT !.literal_pool = Append(@, entry)]

\* The source bytes [p, p + n).
SourceBytes(p, n) == [i \in 1..n |-> Byte(p + i - 1)]

\* The ith byte of a buffer; a byte that was never written reads as 0.
BufferByte(buffer, i) == IF i <= Len(buffer) THEN buffer[i] ELSE 0

\* The first n bytes of a buffer.
BufferBytes(buffer, n) == [i \in 1..n |-> BufferByte(buffer, i)]

\* util_compare_char_literals finding every pair different.
util_compare_char_literals_Never(literal_p, char_p) == FALSE

\* memcmp (literal_p->value.char_p, char_p, literal_p->prop.length) == 0
util_compare_char_literals(literal_p, char_p) ==
  \A i \in 1..literal_p.length : BufferByte(literal_p.value, i) = BufferByte(char_p, i)

(***************************************************************************)
(* lexer_process_char_literal: search the pool for the literal, append it  *)
(* when it is not there.  mem_ok tells whether util_set_char_literal finds *)
(* the memory for the copy of an escaped literal.                          *)
(***************************************************************************)
lexer_process_char_literal(c, char_p, length, literal_type, has_escape, mem_ok) ==
  LET pool == c.literal_pool
      hits == {i \in 1..Len(pool) : /\ pool[i].type = literal_type
                                    /\ pool[i].length = length
                                    /\ util_compare_char_literals(pool[i], char_p)}
      hit == CHOOSE i \in hits : \A j \in hits : i <= j
      literal_index == Len(pool)
      escaped == IF length = 0 THEN FALSE ELSE has_escape
      appended == parser_list_append(c,
                    Literal(literal_type, length,
                            IF escaped /\ ~mem_ok THEN <<>> ELSE BufferBytes(char_p, length),
                            IF escaped THEN {} ELSE {"LEXER_FLAG_SOURCE_PTR"}))
  IN
  IF hits # {} THEN
    [c EXCEPT !.lit_object.literal_p = hit,
              !.lit_object.index = hit - 1,
              !.literal_pool[hit].status_flags = @ \ {"LEXER_FLAG_UNUSED_IDENT"}]
  ELSE IF literal_index >= PARSER_MAXIMUM_NUMBER_OF_LITERALS THEN
    parser_raise_error(c, "PARSER_ERR_LITERAL_LIMIT_REACHED")
  ELSE IF escaped /\ ~mem_ok THEN
    parser_raise_error(appended, "PARSER_ERR_OUT_OF_MEMORY")
  ELSE
    [appended EXCEPT !.lit_object.literal_p = literal_index + 1,
                     !.lit_object.index = literal_index,
                     !.literal_count = @ + 1]

(***************************************************************************)
(* lexer_construct_literal_object.  IdentifierDecode and StringDecode are  *)
(* the two loops that write the decoded bytes of an escaped literal to the *)
(* destination buffer; they return the bytes written.                      *)
(***************************************************************************)
RECURSIVE CopyIntermediateOctets(_, _, _)
CopyIntermediateOctets(p, bounded, dest) ==
  IF (~bounded \/ p < source_end_p) /\ IS_UTF8_INTERMEDIATE_OCTET(Byte(p))
    THEN CopyIntermediateOctets(p + 1, bounded, Append(dest, Byte(p)))
    ELSE [source_p |-> p, dest |-> dest]

RECURSIVE IdentifierDecode(_, _)
IdentifierDecode(p, dest) ==
  LET Again(p1, dest1) ==
        IF p1 < source_end_p /\ (util_is_identifier_part(p1) \/ Byte(p1) = Ord("\\"))
          THEN IdentifierDecode(p1, dest1)
          ELSE [error |-> "none", dest |-> dest1]
      character == lexer_hex_to_character(p + 2, 4)
      copied == CopyIntermediateOctets(p + 1, TRUE, Append(dest, Byte(p)))
      run == AsciiRun(p)
  IN
  IF run > 0 THEN IdentifierDecode(p + run, dest \o SourceBytes(p, run))
  ELSE IF Byte(p) = Ord("\\") THEN
    IF character < 0
      THEN [error |-> "PARSER_ERR_INVALID_ESCAPE_SEQUENCE", dest |-> dest]
      ELSE Again(p + 6, dest \o util_to_utf8_bytes(character))
  ELSE Again(copied.source_p, copied.dest)

OctalValue(b) == b - Ord("0")

\* The control character of a named escape, or the byte itself.
ConvCharacter(b) ==
  CASE b = Ord("b") -> 8
    [] b = Ord("t") -> 9
    [] b = Ord("n") -> 10
    [] b = Ord("v") -> 11
    [] b = Ord("f") -> 12
    [] b = Ord("r") -> 13
    [] OTHER -> b

\* The two 3 byte sequences (a surrogate pair) of the 4 byte sequence at p.
SurrogatePair(p) ==
  LET character == (Byte(p) % 8) * 262144 + (Byte(p + 1) % 64) * 4096
                     + (Byte(p + 2) % 64) * 64 + (Byte(p + 3) % 64) - 65536
  IN util_to_utf8_bytes((55296 + (character \div 1024)) % 65536)
       \o util_to_utf8_bytes(56320 + (character % 1024))

\* The loop has no bound of its own: it relies on the terminator the scanner
\* found.  ReadLimit bounds the overrun of a loop that misses it.
ReadLimit == source_end_p + 8

RECURSIVE StringDecode(_, _, _)
StringDecode(p, str_end_character, dest) ==
  LET Done(dest1) == [error |-> "none", dest |-> dest1]
      \* the statements after the escape handling: a 4 byte sequence or a character
      Plain(q) ==
        IF Byte(q) >= LEXER_UTF8_4BYTE_START
          THEN StringDecode(q + 4, str_end_character, dest \o SurrogatePair(q))
          ELSE LET copied == CopyIntermediateOctets(q + 1, FALSE, Append(dest, Byte(q)))
               IN StringDecode(copied.source_p, str_end_character, copied.dest)
      Escape(q) ==
        LET b == Byte(q)
            o2 == IsOctalDigit(Byte(q + 1))
            o3 == o2 /\ IsOctalDigit(Byte(q + 2))
            n1 == OctalValue(b)
            n2 == n1 * 8 + OctalValue(Byte(q + 1))
            n3 == n2 * 8 + OctalValue(Byte(q + 2))
            hex_part_length == IF b = Ord("x") THEN 2 ELSE 4
            character == lexer_hex_to_character(q + 1, hex_part_length)
        IN
        IF b = LEXER_NEWLINE_CR THEN
          StringDecode(IF Byte(q + 1) = LEXER_NEWLINE_LF THEN q + 2 ELSE q + 1,
                       str_end_character, dest)
        ELSE IF b = LEXER_NEWLINE_LF THEN StringDecode(q + 1, str_end_character, dest)
        ELSE IF b = LEXER_NEWLINE_LS_PS_BYTE_1 /\ LEXER_NEWLINE_LS_PS_BYTE_23(q) THEN
          StringDecode(q + 3, str_end_character, dest)
        ELSE IF b >= Ord("0") /\ b <= Ord("3") THEN
          IF o3 THEN StringDecode(q + 3, str_end_character, dest \o util_to_utf8_bytes(n3))
          ELSE IF o2 THEN StringDecode(q + 2, str_end_character, dest \o util_to_utf8_bytes(n2))
          ELSE StringDecode(q + 1, str_end_character, dest \o util_to_utf8_bytes(n1))
        ELSE IF b >= Ord("4") /\ b <= Ord("7") THEN
          IF o2 THEN StringDecode(q + 2, str_end_character, Append(dest, n2 % 256))
          ELSE StringDecode(q + 1, str_end_character, Append(dest, n1))
        ELSE IF b = Ord("x") \/ b = Ord("u") THEN
          IF character < 0
            THEN [error |-> "PARSER_ERR_INVALID_ESCAPE_SEQUENCE", dest |-> dest]
            ELSE StringDecode(q + hex_part_length + 1, str_end_character,
                              dest \o util_to_utf8_bytes(character))
        ELSE IF ConvCharacter(b) # b THEN
          StringDecode(q + 1, str_end_character, Append(dest, ConvCharacter(b)))
        ELSE Plain(q)
      run == AsciiRun(p)
  IN
  IF run > 0 THEN StringDecode(p + run, str_end_character, dest \o SourceBytes(p, run))
  ELSE IF p >= ReadLimit THEN [error |-> "overrun", dest |-> dest]
  ELSE IF Byte(p) = str_end_character THEN Done(dest)
  ELSE IF Byte(p) = Ord("\\") THEN Escape(p + 1)
  ELSE IF str_end_character = Ord("backtick") /\ Byte(p) = Ord("$") /\ Byte(p + 1) = Ord("{")
    THEN Done(dest)
  ELSE Plain(p)

\* The bytes the decoding loops write for the literal at literal_p; a literal
\* without escape sequences is not copied, its bytes are those of the source.
DecodeLiteral(literal_p) ==
  IF ~literal_p.has_escape
    THEN [error |-> "none", dest |-> SourceBytes(literal_p.char_p, literal_p.length)]
  ELSE IF literal_p.type = "LEXER_IDENT_LITERAL"
    THEN IdentifierDecode(literal_p.char_p, <<>>)
    ELSE StringDecode(literal_p.char_p,
                      IF Byte(literal_p.char_p - 1) = Ord("}")
                        THEN Ord("backtick") ELSE Byte(literal_p.char_p - 1),
                      <<>>)

\* The length bytes at destination_start_p: the bytes written, followed by
\* what the buffer held before when the loop wrote fewer (stale).
BufferContent(dest, length, stale) ==
  IF Len(dest) >= length THEN dest
  ELSE dest \o [i \in 1..(length - Len(dest)) |-> stale]

\* lines 1698-1702: the bytes at source_p are "eval".
IsEval(source_p, length) ==
  length = 4 /\ BufferBytes(source_p, 4) = Bytes(<<"e", "v", "a", "l">>)

\* The test for "arguments" without the memcmp of the bytes in between.
IsArguments_EndsOnly(source_p, length) ==
  length = 9 /\ BufferByte(source_p, 1) = Ord("a") /\ BufferByte(source_p, 9) = Ord("s")

\* lines 1707-1710: the bytes at source_p are "arguments".
IsArguments(source_p, length) ==
  /\ length = 9
  /\ BufferByte(source_p, 1) = Ord("a")
  /\ BufferByte(source_p, 9) = Ord("s")
  /\ [i \in 1..7 |-> BufferByte(source_p, i + 1)] = Bytes(<<"r", "g", "u", "m", "e", "n", "t">>)

\* The heap buffer taken already for a literal that just fills the local one.
NeedsHeapBuffer_AtLimit(literal_p) ==
  literal_p.has_escape /\ literal_p.length >= LEXER_MAX_LITERAL_LOCAL_BUFFER_SIZE

\* lines 1448-1456: the local byte array is too small for the decoded bytes.
NeedsHeapBuffer(literal_p) ==
  literal_p.has_escape /\ literal_p.length > LEXER_MAX_LITERAL_LOCAL_BUFFER_SIZE

lexer_construct_literal_object(c, literal_p, literal_type, mem_ok, stale) ==
  LET on_heap == NeedsHeapBuffer(literal_p)
      \* lines 1698-1719: eval and arguments
      Special(c3, source_p) ==
        IF IsEval(source_p, literal_p.length)
          THEN [c3 EXCEPT !.lit_object.type = "LEXER_LITERAL_OBJECT_EVAL"]
        ELSE IF IsArguments(source_p, literal_p.length)
          THEN IF "PARSER_ARGUMENTS_NOT_NEEDED" \notin c3.status_flags
                    /\ literal_type = "LEXER_IDENT_LITERAL"
                 THEN [c3 EXCEPT !.lit_object.type = "LEXER_LITERAL_OBJECT_ARGUMENTS",
                                 !.status_flags = @ \cup {"PARSER_ARGUMENTS_NEEDED",
                                                          "PARSER_LEXICAL_ENV_NEEDED"},
                                 !.literal_pool[c3.lit_object.literal_p].status_flags =
                                    @ \cup {"LEXER_FLAG_NO_REG_STORE"}]
                 ELSE [c3 EXCEPT !.lit_object.type = "LEXER_LITERAL_OBJECT_ARGUMENTS"]
        ELSE c3
      \* lines 1691-1696: identifiers inside a with statement
      InsideWith(c2) ==
        IF /\ literal_type = "LEXER_IDENT_LITERAL"
           /\ "PARSER_INSIDE_WITH" \in c2.status_flags
           /\ c2.literal_pool[c2.lit_object.literal_p].type = "LEXER_IDENT_LITERAL"
          THEN [c2 EXCEPT !.literal_pool[c2.lit_object.literal_p].status_flags =
                             @ \cup {"LEXER_FLAG_NO_REG_STORE"}]
          ELSE c2
      Processed(c1, source_p) ==
        IF Failed(c1) THEN c1
        ELSE [Special(InsideWith([c1 EXCEPT !.lit_object.type = "LEXER_LITERAL_OBJECT_ANY"]),
                      source_p)
                EXCEPT !.allocated_buffer_p = "NULL"]
      Filled(c0, buffer) ==
        Processed(lexer_process_char_literal(c0, buffer, literal_p.length,
                                             literal_type, literal_p.has_escape, mem_ok),
                  buffer)
      Decoded(c0, decoded) ==
        IF decoded.error # "none" THEN parser_raise_error(c0, decoded.error)
        ELSE Filled(c0, BufferContent(decoded.dest, literal_p.length, stale))
  IN
  Decoded(IF on_heap THEN [c EXCEPT !.allocated_buffer_p = "destination_start_p"] ELSE c,
          DecodeLiteral(literal_p))

(***************************************************************************)
(* lexer_construct_number_object.                                          *)
(***************************************************************************)
RECURSIVE DigitsValue(_, _, _, _)
DigitsValue(p, n, base, acc) ==
  IF n = 0 THEN acc
  ELSE DigitsValue(p + 1, n - 1, base, acc * base + HexDigitValue(Byte(p)))

\* util_get_number: the value of an integer literal; a literal that is not a
\* decimal, hexadecimal or octal integer has no small value.
util_get_number(char_p, length) ==
  IF length > 2 /\ Byte(char_p) = Ord("0") /\ BitOr20(Byte(char_p + 1)) = Ord("x")
    THEN DigitsValue(char_p + 2, length - 2, 16, 0)
  ELSE IF \E i \in 0..(length - 1) : ~IsDecimalDigit(Byte(char_p + i))
    THEN CBC_PUSH_NUMBER_BYTE_RANGE_END + 1
  ELSE IF length > 1 /\ Byte(char_p) = Ord("0")
    THEN DigitsValue(char_p + 1, length - 1, 8, 0)
  ELSE DigitsValue(char_p, length, 10, 0)

\* A negated zero taken for a small number.
IsSmallNumber_NegatedZero(number, is_negative_number) ==
  number <= CBC_PUSH_NUMBER_BYTE_RANGE_END

\* The test of line 1752: the number is pushed by an opcode of its own.
IsSmallNumber(number, is_negative_number) ==
  number <= CBC_PUSH_NUMBER_BYTE_RANGE_END /\ (number # 0 \/ ~is_negative_number)

\* mem_ok tells whether util_set_number_literal finds the memory it needs.
lexer_construct_number_object(c, is_expr, is_negative_number, mem_ok) ==
  LET literal_count == c.literal_count
      location == c.token.lit_location
      number == util_get_number(location.char_p, location.length)
      appended == [parser_list_append(c, Literal("LEXER_UNUSED_LITERAL", location.length,
                                                 SourceBytes(location.char_p, location.length),
                                                 {}))
                     EXCEPT !.literal_count = @ + 1]
  IN
  IF is_expr /\ IsSmallNumber(number, is_negative_number)
    THEN [c |-> [c EXCEPT !.lit_object.index = number], return |-> TRUE]
  ELSE IF literal_count >= PARSER_MAXIMUM_NUMBER_OF_LITERALS
    THEN [c |-> parser_raise_error(c, "PARSER_ERR_LITERAL_LIMIT_REACHED"), return |-> FALSE]
  ELSE IF ~mem_ok
    THEN [c |-> parser_raise_error(appended, "PARSER_ERR_OUT_OF_MEMORY"), return |-> FALSE]
  ELSE [c |-> [appended EXCEPT !.literal_pool[Len(appended.literal_pool)].type =
                                  "LEXER_NUMBER_LITERAL",
                               !.lit_object = [literal_p |-> Len(appended.literal_pool),
                                               index |-> literal_count,
                                               type |-> "LEXER_LITERAL_OBJECT_ANY"]],
        return |-> FALSE]

(***************************************************************************)
(* lexer_convert_push_number_to_push_literal.                              *)
(***************************************************************************)
PushNumberOpcodes ==
  { "CBC_PUSH_NUMBER_0", "CBC_PUSH_NUMBER_POS_BYTE", "CBC_PUSH_NUMBER_NEG_BYTE",
    "CBC_EXT_PUSH_LITERAL_PUSH_NUMBER_0", "CBC_EXT_PUSH_LITERAL_PUSH_NUMBER_POS_BYTE",
    "CBC_EXT_PUSH_LITERAL_PUSH_NUMBER_NEG_BYTE" }

\* Opcodes of the extended list are stored as PARSER_TO_EXT_OPCODE (opcode).
PARSER_IS_BASIC_OPCODE(opcode) ==
  opcode \notin { "CBC_EXT_PUSH_LITERAL_PUSH_NUMBER_0",
                  "CBC_EXT_PUSH_LITERAL_PUSH_NUMBER_POS_BYTE",
                  "CBC_EXT_PUSH_LITERAL_PUSH_NUMBER_NEG_BYTE" }

\* The conversion that appends an entry without looking for the integer in
\* the pool, for opcodes of the basic list.
lexer_convert_push_number_to_push_literal_AlwaysAppends(c) ==
  LET value == IF c.last_cbc_opcode = "CBC_PUSH_NUMBER_0" THEN 0
               ELSE IF c.last_cbc_opcode = "CBC_PUSH_NUMBER_POS_BYTE" THEN c.last_cbc.value + 1
               ELSE -c.last_cbc.value - 1
      referred == [c EXCEPT !.last_cbc_opcode = "CBC_PUSH_LITERAL",
                            !.last_cbc.literal_index = Len(c.literal_pool)]
  IN
  IF Len(c.literal_pool) >= PARSER_MAXIMUM_NUMBER_OF_LITERALS
    THEN parser_raise_error(referred, "PARSER_ERR_LITERAL_LIMIT_REACHED")
  ELSE [parser_list_append(referred, Literal("LEXER_NUMBER_LITERAL", 0, <<256 + value>>, {}))
          EXCEPT !.literal_count = @ + 1]

lexer_convert_push_number_to_push_literal(c) ==
  LET opcode == c.last_cbc_opcode
      two_literals == ~PARSER_IS_BASIC_OPCODE(opcode)
      value == IF opcode \in {"CBC_PUSH_NUMBER_0", "CBC_EXT_PUSH_LITERAL_PUSH_NUMBER_0"}
                 THEN 0
               ELSE IF opcode \in {"CBC_PUSH_NUMBER_POS_BYTE",
                                   "CBC_EXT_PUSH_LITERAL_PUSH_NUMBER_POS_BYTE"}
                 THEN c.last_cbc.value + 1
               ELSE -c.last_cbc.value - 1
      lit_value == <<256 + value>>
      pool == c.literal_pool
      c0 == [c EXCEPT !.last_cbc_opcode = IF two_literals THEN "CBC_PUSH_TWO_LITERALS"
                                                         ELSE "CBC_PUSH_LITERAL"]
      hits == {i \in 1..Len(pool) : /\ pool[i].type = "LEXER_NUMBER_LITERAL"
                                    /\ pool[i].length = 0
                                    /\ pool[i].value = lit_value}
      hit == CHOOSE i \in hits : \A j \in hits : i <= j
      literal_index == IF hits # {} THEN hit - 1 ELSE Len(pool)
      referred == IF two_literals
                    THEN [c0 EXCEPT !.last_cbc.value = literal_index]
                    ELSE [c0 EXCEPT !.last_cbc.literal_index = literal_index]
  IN
  IF hits # {} THEN referred
  ELSE IF literal_index >= PARSER_MAXIMUM_NUMBER_OF_LITERALS
    THEN parser_raise_error(c0, "PARSER_ERR_LITERAL_LIMIT_REACHED")
  ELSE [parser_list_append(referred, Literal("LEXER_NUMBER_LITERAL", 0, lit_value, {}))
          EXCEPT !.literal_count = @ + 1]

(***************************************************************************)
(* lexer_construct_function_object.  parser_parse_function compiles the    *)
(* nested function with a literal pool of its own; parsed tells whether it *)
(* returns or raises an error.                                             *)
(***************************************************************************)
\* The function literal that is appended without being counted.
lexer_construct_function_object_NotCounted(c, parsed) ==
  IF c.literal_count >= PARSER_MAXIMUM_NUMBER_OF_LITERALS
    THEN [c |-> parser_raise_error(c, "PARSER_ERR_LITERAL_LIMIT_REACHED"), return |-> 0]
  ELSE [c |-> parser_list_append(c, Literal("LEXER_FUNCTION_LITERAL", 0, <<>>, {})),
        return |-> c.literal_count]

lexer_construct_function_object(c, parsed) ==
  LET appended == [parser_list_append(c, Literal("LEXER_UNUSED_LITERAL", 0, <<>>, {}))
                     EXCEPT !.literal_count = @ + 1]
      result_index == c.literal_count
  IN
  IF c.literal_count >= PARSER_MAXIMUM_NUMBER_OF_LITERALS
    THEN [c |-> parser_raise_error(c, "PARSER_ERR_LITERAL_LIMIT_REACHED"), return |-> 0]
  ELSE IF ~parsed
    THEN [c |-> parser_raise_error(appended, "PARSER_ERR_NESTED_FUNCTION"), return |-> 0]
  ELSE [c |-> [appended EXCEPT !.literal_pool[Len(appended.literal_pool)].type =
                                  "LEXER_FUNCTION_LITERAL"],
        return |-> result_index]

(***************************************************************************)
(* lexer_construct_regexp_object.  RegexpLoop scans the body up to and     *)
(* including the closing slash, RegexpFlags the flags after it.            *)
(***************************************************************************)
\* The slash that closes the body although it stands in a class.
RegexpBodyEnds_InClass(p, in_class) == Byte(p) = Ord("/")

\* line 1946
RegexpBodyEnds(p, in_class) == ~in_class /\ Byte(p) = Ord("/")

RECURSIVE RegexpLoop(_, _, _)
RegexpLoop(p, column, in_class) ==
  LET b == Byte(p)
      Next1(q, column1, in_class1) ==
        RegexpLoop(SkipIntermediateOctets(q + 1), column1 + 1, in_class1)
  IN
  IF p >= source_end_p THEN
    [error |-> "PARSER_ERR_UNTERMINATED_REGEXP", source_p |-> p, column |-> column]
  ELSE IF RegexpBodyEnds(p, in_class) THEN
    [error |-> "none", source_p |-> p + 1, column |-> column + 1]
  ELSE IF b = LEXER_NEWLINE_CR \/ b = LEXER_NEWLINE_LF
            \/ (b = LEXER_NEWLINE_LS_PS_BYTE_1 /\ LEXER_NEWLINE_LS_PS_BYTE_23(p)) THEN
    [error |-> "PARSER_ERR_NEWLINE_NOT_ALLOWED", source_p |-> p, column |-> column]
  ELSE IF b = LEXER_TAB THEN Next1(p, align_column_to_tab(column) - 1, in_class)
  ELSE IF b = Ord("[") THEN Next1(p, column, TRUE)
  ELSE IF b = Ord("]") THEN Next1(p, column, FALSE)
  ELSE IF b = Ord("\\") THEN
    IF p + 1 >= source_end_p THEN
      [error |-> "PARSER_ERR_UNTERMINATED_REGEXP", source_p |-> p, column |-> column]
    ELSE IF Byte(p + 1) >= 32 /\ Byte(p + 1) <= 127 THEN Next1(p + 1, column + 1, in_class)
    ELSE Next1(p, column, in_class)
  ELSE Next1(p, column, in_class)

\* The flags i and m take the same bit.
RegexpFlag_SharedBit(b) ==
  IF b = Ord("g") THEN 1 ELSE IF b = Ord("i") THEN 2 ELSE IF b = Ord("m") THEN 2 ELSE 0

\* lines 2013-2024
RegexpFlag(b) ==
  IF b = Ord("g") THEN 1 ELSE IF b = Ord("i") THEN 2 ELSE IF b = Ord("m") THEN 4 ELSE 0

RECURSIVE RegexpFlags(_, _, _)
RegexpFlags(p, column, current_flags) ==
  IF p < source_end_p /\ RegexpFlag(Byte(p)) # 0 THEN
    IF RegexpFlag(Byte(p)) \in current_flags
      THEN [error |-> "PARSER_ERR_DUPLICATED_REGEXP_FLAG", source_p |-> p, column |-> column]
      ELSE RegexpFlags(p + 1, column + 1, current_flags \cup {RegexpFlag(Byte(p))})
  ELSE [error |-> "none", source_p |-> p, column |-> column]

\* compiled tells whether util_set_regexp_literal accepts the pattern.
lexer_construct_regexp_object(c, parse_only, compiled) ==
  LET regex_start_p == IF c.token.type = "LEXER_ASSIGN_DIVIDE"
                         THEN c.source_p - 2 ELSE c.source_p - 1
      \* lines 2076-2089
      Stored(appended) ==
        IF ~compiled THEN parser_raise_error(appended, "PARSER_ERR_INVALID_REGEXP")
        ELSE [appended EXCEPT !.literal_pool[Len(appended.literal_pool)].type =
                                 "LEXER_REGEXP_LITERAL",
                              !.token.type = "LEXER_LITERAL",
                              !.token.literal_is_reserved = FALSE,
                              !.token.lit_location.type = "LEXER_REGEXP_LITERAL",
                              !.lit_object = [literal_p |-> Len(appended.literal_pool),
                                              index |-> appended.literal_count - 1,
                                              type |-> "LEXER_LITERAL_OBJECT_ANY"]]
      \* lines 2050-2074
      Scanned(c1, length) ==
        IF length > PARSER_MAXIMUM_STRING_LENGTH
          THEN parser_raise_error(c1, "PARSER_ERR_REGEXP_TOO_LONG")
        ELSE IF parse_only THEN c1
        ELSE IF c1.literal_count >= PARSER_MAXIMUM_NUMBER_OF_LITERALS
          THEN parser_raise_error(c1, "PARSER_ERR_LITERAL_LIMIT_REACHED")
        ELSE Stored([parser_list_append(c1, Literal("LEXER_UNUSED_LITERAL", length,
                                                    SourceBytes(regex_start_p, length), {}))
                       EXCEPT !.literal_count = @ + 1])
      Flags(flags) ==
        IF flags.error # "none" THEN parser_raise_error(c, flags.error)
        ELSE IF flags.source_p < source_end_p /\ util_is_identifier_part(flags.source_p)
          THEN parser_raise_error(c, "PARSER_ERR_UNKNOWN_REGEXP_FLAG")
        ELSE Scanned([c EXCEPT !.source_p = flags.source_p, !.column = flags.column],
                     flags.source_p - regex_start_p)
      Body(body) ==
        IF body.error # "none" THEN parser_raise_error(c, body.error)
        ELSE Flags(RegexpFlags(body.source_p, body.column, {}))
  IN Body(RegexpLoop(c.source_p, c.column, FALSE))

(***************************************************************************)
(* lexer_compare_identifier_to_current.                                    *)
(***************************************************************************)
\* The value of one digit as lexer_decode_unicode_sequence computes it.
UncheckedHexValue(byte) ==
  IF byte <= Ord("9") THEN byte - Ord("0") ELSE BitOr20(byte) - (Ord("a") - 10)

lexer_decode_unicode_sequence(p) ==
  (((UncheckedHexValue(Byte(p + 2)) * 16 + UncheckedHexValue(Byte(p + 3))) * 16
      + UncheckedHexValue(Byte(p + 4))) * 16 + UncheckedHexValue(Byte(p + 5))) % 65536

\* The do-while loop of the comparison; count is a size_t.  Steps bounds the
\* iterations of a loop that has left the identifiers; a loop that is still
\* running then has read memory the model does not describe (overrun).
RECURSIVE CompareLoop(_, _, _, _)
CompareLoop(left_p, right_p, count, steps) ==
  LET Exit(value, l, r, n) ==
        [return |-> value, left_p |-> l, right_p |-> r, count |-> n, overrun |-> FALSE]
      Again(l, r, n) ==
        IF n # 0 THEN CompareLoop(l, r, n, steps + 1) ELSE Exit(TRUE, l, r, n)
      \* lines 2400-2413: both characters are escape sequences
      Both(left_chr, right_chr) ==
        IF left_chr # right_chr
          THEN Exit(FALSE, left_p, right_p, count)
          ELSE Again(left_p + 6, right_p + 6, count + util_get_utf8_length(left_chr))
      \* lines 2424-2439: the character at escaped_p is an escape sequence, the
      \* one at plain_p is not; offsets is where utf8_buf differs from the bytes
      Differ(escaped_p, plain_p, utf8_len, offsets) ==
        IF offsets # {}
          THEN Exit(FALSE, escaped_p,
                    plain_p + (CHOOSE offset \in offsets : \A other \in offsets : offset <= other),
                    count - utf8_len)
          ELSE Again(escaped_p + 6, plain_p + utf8_len, count - utf8_len)
      Mixed(escaped_p, plain_p, utf8_buf) ==
        Differ(escaped_p, plain_p, Len(utf8_buf),
               {offset \in 1..Len(utf8_buf) : utf8_buf[offset] # Byte(plain_p + offset - 1)})
  IN
  IF steps >= CompareStepLimit
    THEN [return |-> FALSE, left_p |-> left_p, right_p |-> right_p, count |-> count,
          overrun |-> TRUE]
  ELSE IF Byte(left_p) # Ord("\\") /\ Byte(right_p) # Ord("\\") THEN
    IF Byte(left_p) # Byte(right_p)
      THEN Exit(FALSE, left_p + 1, right_p + 1, count)
      ELSE Again(left_p + 1, right_p + 1, count - 1)
  ELSE IF Byte(left_p) = Ord("\\") /\ Byte(right_p) = Ord("\\") THEN
    Both(lexer_decode_unicode_sequence(left_p), lexer_decode_unicode_sequence(right_p))
  ELSE IF Byte(right_p) = Ord("\\")
    THEN Mixed(right_p, left_p, util_to_utf8_bytes(lexer_decode_unicode_sequence(right_p)))
    ELSE Mixed(left_p, right_p, util_to_utf8_bytes(lexer_decode_unicode_sequence(left_p)))

lexer_compare_identifier_to_current(c, right_ident_p) ==
  LET left_ident_p == c.token.lit_location
  IN
  IF left_ident_p.length # right_ident_p.length
    THEN [return |-> FALSE, left_p |-> left_ident_p.char_p,
          right_p |-> right_ident_p.char_p, count |-> left_ident_p.length,
          overrun |-> FALSE]
  ELSE IF ~left_ident_p.has_escape /\ ~right_ident_p.has_escape
    THEN [return |-> SourceBytes(left_ident_p.char_p, left_ident_p.length)
                       = SourceBytes(right_ident_p.char_p, left_ident_p.length),
          left_p |-> left_ident_p.char_p + left_ident_p.length,
          right_p |-> right_ident_p.char_p + left_ident_p.length,
          count |-> 0, overrun |-> FALSE]
  ELSE CompareLoop(left_ident_p.char_p, right_ident_p.char_p, left_ident_p.length, 0)

(***************************************************************************)
(* lexer_skip_empty_statements.                                            *)
(***************************************************************************)
RECURSIVE lexer_skip_empty_statements(_)
lexer_skip_empty_statements(c) ==
  LET spaces == lexer_skip_spaces(c)
  IN
  IF Failed(spaces) THEN spaces
  ELSE IF spaces.source_p < source_end_p /\ Byte(spaces.source_p) = Ord(";")
    THEN lexer_skip_empty_statements([spaces EXCEPT !.source_p = @ + 1])
  ELSE spaces

\* The comparison that does not look at the length of the identifier.
lexer_compare_raw_identifier_to_current_AnyLength(c, right_ident_p, right_ident_length) ==
  LET left_ident_p == c.token.lit_location
  IN
  /\ ~left_ident_p.has_escape
  /\ SourceBytes(left_ident_p.char_p, right_ident_length) = right_ident_p

lexer_compare_raw_identifier_to_current(c, right_ident_p, right_ident_length) ==
  LET left_ident_p == c.token.lit_location
  IN
  /\ left_ident_p.length = right_ident_length
  /\ ~left_ident_p.has_escape
  /\ SourceBytes(left_ident_p.char_p, right_ident_length) = right_ident_p

(***************************************************************************)
(* lexer_expect_object_literal_id.  ident_opts is the set of the option    *)
(* bits; mem_ok and stale are those of lexer_construct_literal_object and  *)
(* lexer_construct_number_object.  A computed name ([ expression ]) is     *)
(* parsed by parser_parse_expression and is not part of the model.         *)
(***************************************************************************)
lexer_expect_object_literal_id(c, ident_opts, mem_ok, stale) ==
  LET spaces == lexer_skip_spaces(c)
      only_identifiers == "LEXER_OBJ_IDENT_ONLY_IDENTIFIERS" \in ident_opts
      is_class_method == /\ "LEXER_OBJ_IDENT_CLASS_METHOD" \in ident_opts
                         /\ ~only_identifiers
                         /\ c.token.type # "LEXER_KEYW_STATIC"
      \* lines 2245-2259
      Create(c1) ==
        IF Failed(c1) THEN c1
        ELSE IF is_class_method
                  /\ lexer_compare_raw_identifier_to_current(c1, Bytes(<<"c", "o", "n", "s", "t",
                                                                 "r", "u", "c", "t", "o", "r">>), 11)
          THEN [c1 EXCEPT !.token.type = "LEXER_CLASS_CONSTRUCTOR"]
        ELSE lexer_construct_literal_object(c1, c1.token.lit_location, "LEXER_STRING_LITERAL",
                                            mem_ok, stale)
      \* lines 2191-2200
      Static(c1) ==
        IF is_class_method
             /\ lexer_compare_raw_identifier_to_current(c1, Bytes(<<"s", "t", "a", "t", "i", "c">>), 6)
          THEN [c1 EXCEPT !.token.type = "LEXER_KEYW_STATIC"]
          ELSE Create(c1)
      \* lines 2174-2188
      Accessor(c1) ==
        IF Failed(c1) THEN c1
        ELSE IF c1.source_p < source_end_p /\ Byte(c1.source_p) # Ord(":")
                  /\ lexer_compare_raw_identifier_to_current(c1, Bytes(<<"g", "e", "t">>), 3)
          THEN [c1 EXCEPT !.token.type = "LEXER_PROPERTY_GETTER"]
        ELSE IF c1.source_p < source_end_p /\ Byte(c1.source_p) # Ord(":")
                  /\ lexer_compare_raw_identifier_to_current(c1, Bytes(<<"s", "e", "t">>), 3)
          THEN [c1 EXCEPT !.token.type = "LEXER_PROPERTY_SETTER"]
        ELSE Static(c1)
      \* lines 2166-2171
      Identifier(c1) ==
        IF Failed(c1) THEN c1
        ELSE IF ~only_identifiers /\ c1.token.lit_location.length = 3
          THEN Accessor(lexer_skip_spaces(c1))
        ELSE Static(c1)
      \* lines 2231-2243
      Number(c1) ==
        IF Failed(c1) THEN c1
        ELSE lexer_construct_number_object(c1, FALSE, FALSE, mem_ok).c
      Name(c1) ==
        LET char_p == IF Byte(c1.source_p) = Ord(".") THEN c1.source_p + 1 ELSE c1.source_p
        IN
        IF util_is_identifier_start(c1.source_p) \/ Byte(c1.source_p) = Ord("\\")
          THEN Identifier(lexer_parse_identifier(c1, FALSE))
        ELSE IF Byte(c1.source_p) \in {34, 39}
          THEN Create(lexer_parse_string(c1))
        ELSE IF ~only_identifiers /\ Byte(c1.source_p) = Ord("}")
          THEN [c1 EXCEPT !.token.type = "LEXER_RIGHT_BRACE",
                          !.source_p = @ + 1, !.column = @ + 1]
        ELSE IF char_p < source_end_p /\ IsDecimalDigit(Byte(char_p))
          THEN Number(lexer_parse_number(c1))
        ELSE parser_raise_error(c1, "PARSER_ERR_PROPERTY_IDENTIFIER_EXPECTED")
  IN
  IF Failed(spaces) THEN spaces
  ELSE IF spaces.source_p < source_end_p
    THEN Name([spaces EXCEPT !.token.line = spaces.line, !.token.column = spaces.column])
  ELSE parser_raise_error([spaces EXCEPT !.token.line = spaces.line,
                                         !.token.column = spaces.column],
                          "PARSER_ERR_PROPERTY_IDENTIFIER_EXPECTED")

(***************************************************************************)
(* lexer_scan_identifier.                                                  *)
(***************************************************************************)
lexer_scan_identifier(c, property_name) ==
  LET spaces == lexer_skip_spaces(c)
      \* lines 2287-2301
      Accessor(c1) ==
        IF Failed(c1) THEN c1
        ELSE IF c1.source_p < source_end_p /\ Byte(c1.source_p) # Ord(":")
                  /\ lexer_compare_raw_identifier_to_current(c1, Bytes(<<"g", "e", "t">>), 3)
          THEN [c1 EXCEPT !.token.type = "LEXER_PROPERTY_GETTER"]
        ELSE IF c1.source_p < source_end_p /\ Byte(c1.source_p) # Ord(":")
                  /\ lexer_compare_raw_identifier_to_current(c1, Bytes(<<"s", "e", "t">>), 3)
          THEN [c1 EXCEPT !.token.type = "LEXER_PROPERTY_SETTER"]
        ELSE c1
      Identifier(c1) ==
        IF Failed(c1) THEN c1
        ELSE IF property_name /\ c1.token.lit_location.length = 3
          THEN Accessor(lexer_skip_spaces(c1))
        ELSE c1
      \* lines 2306-2321
      Other(c1) ==
        IF Failed(c1) THEN c1
        ELSE IF c1.token.type \in {"LEXER_LITERAL", "LEXER_LEFT_SQUARE", "LEXER_RIGHT_BRACE"}
          THEN c1
        ELSE parser_raise_error(c1, "PARSER_ERR_IDENTIFIER_EXPECTED")
      Positioned(c1) ==
        IF c1.source_p < source_end_p
             /\ (util_is_identifier_start(c1.source_p) \/ Byte(c1.source_p) = Ord("\\"))
          THEN Identifier(lexer_parse_identifier(c1, FALSE))
        ELSE IF property_name THEN Other(lexer_next_token(c1))
        ELSE parser_raise_error(c1, "PARSER_ERR_IDENTIFIER_EXPECTED")
  IN
  IF Failed(spaces) THEN spaces
  ELSE Positioned([spaces EXCEPT !.token.line = spaces.line, !.token.column = spaces.column])

(***************************************************************************)
(* The state after parser initialisation (the parser sets the cursor to    *)
(* the start of the source, line and column to 1 and the pool to empty)    *)
(* and the calls the parser makes.  A raised error ends the compilation:   *)
(* no call follows it.                                                     *)
(***************************************************************************)
StaleBytes == {0, Ord("a")}

(***************************************************************************)
(* The ArrayBuffer object (ecma-arraybuffer-object.c).  The fields are     *)
(* those of ecma_extended_object_t and ecma_arraybuffer_external_info:     *)
(* array_buffer_flags is the set of the flag bits that are set             *)
(* (ECMA_ARRAYBUFFER_INTERNAL_MEMORY is no bit), buffer_p of an object     *)
(* with internal memory is the data that follows the object ("inline").    *)
(* freed is the list of the pointers the free callback was called with.    *)
(***************************************************************************)
NoArrayBuffer ==
  [ array_buffer_flags |-> {}, length |-> 0, buffer_p |-> "NULL", free_cb |-> "NULL",
    freed |-> <<>> ]

ecma_arraybuffer_new_object(length) ==
  [ array_buffer_flags |-> {}, length |-> length, buffer_p |-> "inline", free_cb |-> "NULL",
    freed |-> <<>> ]

ecma_arraybuffer_new_object_external(length, buffer_p, free_cb) ==
  [ array_buffer_flags |-> {"ECMA_ARRAYBUFFER_EXTERNAL_MEMORY"}, length |-> length,
    buffer_p |-> buffer_p, free_cb |-> free_cb, freed |-> <<>> ]

ECMA_ARRAYBUFFER_HAS_EXTERNAL_MEMORY(object_p) ==
  "ECMA_ARRAYBUFFER_EXTERNAL_MEMORY" \in object_p.array_buffer_flags

\* The test that takes no object for detached.
ecma_arraybuffer_is_detached_Never(object_p) == FALSE

ecma_arraybuffer_is_detached(object_p) ==
  "ECMA_ARRAYBUFFER_DETACHED" \in object_p.array_buffer_flags

ecma_arraybuffer_get_length(object_p) ==
  IF ecma_arraybuffer_is_detached(object_p) THEN 0 ELSE object_p.length

ecma_arraybuffer_get_buffer(object_p) ==
  IF ECMA_ARRAYBUFFER_HAS_EXTERNAL_MEMORY(object_p) THEN object_p.buffer_p
  ELSE IF "ECMA_ARRAYBUFFER_DETACHED" \in object_p.array_buffer_flags THEN "NULL"
  ELSE "inline"

\* The object after the call, and what the call returns.
ecma_arraybuffer_detach(object_p) ==
  LET detached == [object_p EXCEPT !.array_buffer_flags = @ \cup {"ECMA_ARRAYBUFFER_DETACHED"}]
      called == IF detached.free_cb # "NULL"
                  THEN [detached EXCEPT !.freed = Append(@, detached.buffer_p),
                                        !.free_cb = "NULL"]
                  ELSE detached
  IN
  IF ecma_arraybuffer_is_detached(object_p)
    THEN [object_p |-> object_p, return |-> FALSE]
  ELSE IF ECMA_ARRAYBUFFER_HAS_EXTERNAL_MEMORY(detached)
    THEN [object_p |-> [called EXCEPT !.length = 0, !.buffer_p = "NULL"], return |-> TRUE]
  ELSE [object_p |-> detached, return |-> TRUE]

InitialContext(status_flags) ==
  [ source_p |-> 0, line |-> 1, column |-> 1,
    token |-> [ type |-> "uninitialized", line |-> 1, column |-> 1, flags |-> {},
                literal_is_reserved |-> FALSE, extra_value |-> "LEXER_NUMBER_DECIMAL",
                lit_location |-> [ char_p |-> 0, length |-> 0,
                                   type |-> "LEXER_UNUSED_LITERAL", has_escape |-> FALSE ] ],
    status_flags |-> status_flags,
    literal_pool |-> <<>>, literal_count |-> 0,
    lit_object |-> [ literal_p |-> 0, index |-> 0, type |-> "LEXER_LITERAL_OBJECT_ANY" ],
    allocated_buffer_p |-> "NULL",
    last_cbc_opcode |-> "PARSER_CBC_UNAVAILABLE",
    last_cbc |-> [ value |-> 0, literal_index |-> 0 ],
    error |-> "none" ]

InitWith(sources, tails, flag_sets) ==
  /\ source \in sources
  /\ tail \in tails
  /\ context \in {InitialContext(status_flags) : status_flags \in flag_sets}
  /\ saved = <<>>
  /\ result = [op |-> "none"]
  /\ history = <<>>
  /\ arraybuffer = NoArrayBuffer

\* What the caller sees of the current token.
TokenView(c) ==
  LET has_literal == c.token.type \in {"LEXER_LITERAL", "LEXER_TEMPLATE_LITERAL"}
  IN
  [ type |-> c.token.type, line |-> c.token.line, column |-> c.token.column,
    literal_type |-> IF has_literal THEN c.token.lit_location.type ELSE "none",
    length |-> IF has_literal THEN c.token.lit_location.length ELSE 0,
    text |-> IF has_literal
               THEN SourceBytes(c.token.lit_location.char_p,
                                (c.source_p - c.token.lit_location.char_p))
               ELSE <<>> ]

\* The lookahead that does not tell the next call that it has skipped.
lexer_check_next_character_ForgetsSkip(c, character) ==
  LET Checked(c1) ==
        [c |-> c1,
         return |-> ~Failed(c1) /\ c1.source_p < source_end_p
                      /\ Byte(c1.source_p) = character]
  IN Checked(lexer_skip_spaces(c))

(***************************************************************************)
(* lexer_check_next_character and lexer_check_arrow: the parser looks at   *)
(* what follows the current token.  The spaces are skipped now and         *)
(* LEXER_NO_SKIP_SPACES tells the next lexer_skip_spaces not to skip again.*)
(***************************************************************************)
lexer_check_next_character(c, character) ==
  LET Checked(c1) ==
        [c |-> IF Failed(c1) THEN c1
               ELSE [c1 EXCEPT !.token.flags = @ \cup {"LEXER_NO_SKIP_SPACES"}],
         return |-> ~Failed(c1) /\ c1.source_p < source_end_p
                      /\ Byte(c1.source_p) = character]
  IN Checked(lexer_skip_spaces(c))

\* lexer_check_arrow taking "=>" for an arrow also after a line terminator.
lexer_check_arrow_AfterNewline(c) ==
  LET Checked(c1) ==
        [c |-> IF Failed(c1) THEN c1
               ELSE [c1 EXCEPT !.token.flags = @ \cup {"LEXER_NO_SKIP_SPACES"}],
         return |->
           IF Failed(c1) \/ c1.source_p >= source_end_p THEN "LEXER_EOS"
           ELSE IF Byte(c1.source_p) = Ord(",") THEN "LEXER_COMMA"
           ELSE IF Byte(c1.source_p) = Ord(")") THEN "LEXER_RIGHT_PAREN"
           ELSE IF Byte(c1.source_p) = Ord("=")
                     /\ c1.source_p + 1 < source_end_p
                     /\ Byte(c1.source_p + 1) = Ord(">") THEN "LEXER_ARROW"
           ELSE "LEXER_EOS"]
  IN Checked(lexer_skip_spaces(c))

\* lexer_check_arrow stepping over the comma or the parenthesis it reports.
lexer_check_arrow_Consumes(c) ==
  LET Checked(c1) ==
        LET found == ~Failed(c1) /\ c1.source_p < source_end_p
                       /\ Byte(c1.source_p) \in {Ord(","), Ord(")")}
        IN [c |-> IF Failed(c1) THEN c1
                  ELSE [c1 EXCEPT !.token.flags = @ \cup {"LEXER_NO_SKIP_SPACES"},
                                  !.source_p = IF found THEN @ + 1 ELSE @,
                                  !.column = IF found THEN @ + 1 ELSE @],
            return |->
              IF Failed(c1) \/ c1.source_p >= source_end_p THEN "LEXER_EOS"
              ELSE IF Byte(c1.source_p) = Ord(",") THEN "LEXER_COMMA"
              ELSE IF Byte(c1.source_p) = Ord(")") THEN "LEXER_RIGHT_PAREN"
              ELSE IF Byte(c1.source_p) = Ord("=")
                        /\ "LEXER_WAS_NEWLINE" \notin c1.token.flags
                        /\ c1.source_p + 1 < source_end_p
                        /\ Byte(c1.source_p + 1) = Ord(">") THEN "LEXER_ARROW"
              ELSE "LEXER_EOS"]
  IN Checked(lexer_skip_spaces(c))

lexer_check_arrow(c) ==
  LET Checked(c1) ==
        [c |-> IF Failed(c1) THEN c1
               ELSE [c1 EXCEPT !.token.flags = @ \cup {"LEXER_NO_SKIP_SPACES"}],
         return |->
           IF Failed(c1) \/ c1.source_p >= source_end_p THEN "LEXER_EOS"
           ELSE IF Byte(c1.source_p) = Ord(",") THEN "LEXER_COMMA"
           ELSE IF Byte(c1.source_p) = Ord(")") THEN "LEXER_RIGHT_PAREN"
           ELSE IF Byte(c1.source_p) = Ord("=")
                     /\ "LEXER_WAS_NEWLINE" \notin c1.token.flags
                     /\ c1.source_p + 1 < source_end_p
                     /\ Byte(c1.source_p + 1) = Ord(">") THEN "LEXER_ARROW"
           ELSE "LEXER_EOS"]
  IN Checked(lexer_skip_spaces(c))

\* The characters the parser asks lexer_check_next_character about.
CheckedCharacters == { Ord(":"), Ord("("), Ord("=") }

CheckNextCharacter ==
  /\ ~Failed(context)
  /\ history # <<>>
  /\ \E character \in CheckedCharacters :
       LET call == lexer_check_next_character(context, character)
       IN /\ context' = call.c
          /\ result' = [op |-> "lexer_check_next_character", return |-> call.return]
  /\ UNCHANGED <<arraybuffer, source, tail, saved, history>>

CheckArrow ==
  /\ ~Failed(context)
  /\ history # <<>>
  /\ LET call == lexer_check_arrow(context)
     IN /\ context' = call.c
        /\ result' = [op |-> "lexer_check_arrow", return |-> call.return]
  /\ UNCHANGED <<arraybuffer, source, tail, saved, history>>

SkipSpaces ==
  /\ ~Failed(context)
  /\ context' = lexer_skip_spaces(context)
  /\ result' = [op |-> "lexer_skip_spaces"]
  /\ UNCHANGED <<arraybuffer, source, tail, saved, history>>

SkipEmptyStatements ==
  /\ ~Failed(context)
  /\ context' = lexer_skip_empty_statements(context)
  /\ result' = [op |-> "lexer_skip_empty_statements"]
  /\ UNCHANGED <<arraybuffer, source, tail, saved, history>>

LexerObjIdentOpts ==
  { {}, {"LEXER_OBJ_IDENT_ONLY_IDENTIFIERS"}, {"LEXER_OBJ_IDENT_CLASS_METHOD"} }

\* The name is not a computed one: the byte after the spaces is no [.
PlainNameFollows(c) ==
  LET spaces == lexer_skip_spaces(c)
  IN Failed(spaces) \/ spaces.source_p >= source_end_p \/ Byte(spaces.source_p) # Ord("[")

ExpectObjectLiteralId ==
  /\ ~Failed(context)
  /\ Len(history) < MaxCalls
  /\ PlainNameFollows(context)
  /\ \E ident_opts \in LexerObjIdentOpts, mem_ok \in BOOLEAN, stale \in StaleBytes :
       /\ context' = lexer_expect_object_literal_id(context, ident_opts, mem_ok, stale)
       /\ result' = [op |-> "lexer_expect_object_literal_id", ident_opts |-> ident_opts]
  /\ history' = IF Failed(context') THEN history ELSE Append(history, TokenView(context'))
  /\ UNCHANGED <<arraybuffer, source, tail, saved>>

ScanIdentifier ==
  /\ ~Failed(context)
  /\ Len(history) < MaxCalls
  /\ \E property_name \in BOOLEAN :
       /\ context' = lexer_scan_identifier(context, property_name)
       /\ result' = [op |-> "lexer_scan_identifier", property_name |-> property_name]
  /\ history' = IF Failed(context') THEN history ELSE Append(history, TokenView(context'))
  /\ UNCHANGED <<arraybuffer, source, tail, saved>>

IsLiteralToken(c, types) ==
  c.token.type = "LEXER_LITERAL" /\ c.token.lit_location.type \in types

\* already_skipped tells that lexer_skip_spaces returned at once, the spaces
\* having been skipped by a lookahead.
NextToken ==
  /\ ~Failed(context)
  /\ Len(history) < MaxCalls
  /\ context' = lexer_next_token(context)
  /\ history' = IF Failed(context') THEN history ELSE Append(history, TokenView(context'))
  /\ result' = [op |-> "lexer_next_token",
                already_skipped |-> "LEXER_NO_SKIP_SPACES" \in context.token.flags]
  /\ UNCHANGED <<arraybuffer, source, tail, saved>>

\* stale is what the destination buffer held before the call, for the bytes
\* the decoding loop leaves unwritten.  written is the number of bytes the
\* loop wrote (destination_p - destination_start_p).
ConstructLiteral ==
  /\ ~Failed(context)
  /\ \/ IsLiteralToken(context, {"LEXER_IDENT_LITERAL", "LEXER_STRING_LITERAL"})
     \/ context.token.type = "LEXER_TEMPLATE_LITERAL"
  /\ \E literal_type \in {"LEXER_IDENT_LITERAL", "LEXER_STRING_LITERAL"}, mem_ok \in BOOLEAN,
        stale \in StaleBytes :
       /\ context.token.lit_location.type = "LEXER_STRING_LITERAL"
            => literal_type = "LEXER_STRING_LITERAL"
       /\ context' = lexer_construct_literal_object(context, context.token.lit_location,
                                                    literal_type, mem_ok, stale)
       /\ result' = [op |-> "lexer_construct_literal_object", literal_type |-> literal_type,
                     written |-> Len(DecodeLiteral(context.token.lit_location).dest)]
  /\ UNCHANGED <<arraybuffer, source, tail, saved, history>>

\* The parser resumes a template literal at the right brace that closes the
\* embedded expression: it steps back to the brace and scans on from there.
ParseTemplateString ==
  /\ ~Failed(context)
  /\ Len(history) < MaxCalls
  /\ context.token.type = "LEXER_RIGHT_BRACE"
  /\ context' = lexer_parse_string([context EXCEPT !.source_p = @ - 1, !.column = @ - 1])
  /\ history' = IF Failed(context') THEN history ELSE Append(history, TokenView(context'))
  /\ result' = [op |-> "lexer_parse_string"]
  /\ UNCHANGED <<arraybuffer, source, tail, saved>>

ConstructNumber ==
  /\ ~Failed(context)
  /\ IsLiteralToken(context, {"LEXER_NUMBER_LITERAL"})
  /\ \E is_expr \in BOOLEAN, is_negative_number \in BOOLEAN, mem_ok \in BOOLEAN :
       LET call == lexer_construct_number_object(context, is_expr, is_negative_number, mem_ok)
       IN /\ context' = call.c
          /\ result' = [op |-> "lexer_construct_number_object", return |-> call.return,
                        is_expr |-> is_expr, is_negative_number |-> is_negative_number]
  /\ UNCHANGED <<arraybuffer, source, tail, saved, history>>

\* After lexer_construct_number_object returned true the parser emits the
\* push-number opcode that carries lit_object.index.
EmitPushNumber ==
  /\ ~Failed(context)
  /\ result.op = "lexer_construct_number_object"
  /\ result.return
  /\ \E with_literal \in BOOLEAN :
       LET number == context.lit_object.index
           kind == IF number = 0 THEN "NUMBER_0"
                   ELSE IF result.is_negative_number THEN "NUMBER_NEG_BYTE"
                   ELSE "NUMBER_POS_BYTE"
           opcode == IF with_literal
                       THEN "CBC_EXT_PUSH_LITERAL_PUSH_" \o kind
                       ELSE "CBC_PUSH_" \o kind
       IN context' = [context EXCEPT
                        !.last_cbc_opcode = opcode,
                        !.last_cbc.value = IF number = 0 THEN 0 ELSE number - 1]
  /\ result' = [op |-> "parser_emit_cbc_push_number"]
  /\ UNCHANGED <<arraybuffer, source, tail, saved, history>>

ConvertPushNumber ==
  /\ ~Failed(context)
  /\ context.last_cbc_opcode \in PushNumberOpcodes
  /\ context' = lexer_convert_push_number_to_push_literal(context)
  /\ result' = [op |-> "lexer_convert_push_number_to_push_literal"]
  /\ UNCHANGED <<arraybuffer, source, tail, saved, history>>

ConstructFunction ==
  /\ ~Failed(context)
  /\ context.token.type = "LEXER_KEYW_FUNCTION"
  /\ \E parsed \in BOOLEAN :
       LET call == lexer_construct_function_object(context, parsed)
       IN /\ context' = call.c
          /\ result' = [op |-> "lexer_construct_function_object", return |-> call.return]
  /\ UNCHANGED <<arraybuffer, source, tail, saved, history>>

ConstructRegexp ==
  /\ ~Failed(context)
  /\ context.token.type \in {"LEXER_DIVIDE", "LEXER_ASSIGN_DIVIDE"}
  /\ \E parse_only \in BOOLEAN, compiled \in BOOLEAN :
       /\ context' = lexer_construct_regexp_object(context, parse_only, compiled)
       /\ result' = [op |-> "lexer_construct_regexp_object", parse_only |-> parse_only]
  /\ UNCHANGED <<arraybuffer, source, tail, saved, history>>

\* The parser keeps the location and the pool index of a literal it built.
SaveLiteral ==
  /\ ~Failed(context)
  /\ result.op = "lexer_construct_literal_object"
  /\ saved' = << [ location |-> context.token.lit_location,
                   index |-> context.lit_object.index,
                   literal_type |-> result.literal_type ] >>
  /\ result' = [op |-> "save"]
  /\ UNCHANGED <<arraybuffer, source, tail, context, history>>

\* A comparison that leaves the memory the model describes may return
\* either value.
CompareIdentifier ==
  /\ ~Failed(context)
  /\ saved # <<>>
  /\ IsLiteralToken(context, {"LEXER_IDENT_LITERAL"})
  /\ saved[1].location.type = "LEXER_IDENT_LITERAL"
  /\ LET call == lexer_compare_identifier_to_current(context, saved[1].location)
     IN \E return \in BOOLEAN :
          /\ ~call.overrun => return = call.return
          /\ result' = [op |-> "lexer_compare_identifier_to_current", return |-> return,
                        left_p |-> call.left_p, right_p |-> call.right_p,
                        count |-> call.count, overrun |-> call.overrun]
  /\ UNCHANGED <<arraybuffer, source, tail, context, saved, history>>

(***************************************************************************)
(* Token scanning: the sources are the statement of the first example,     *)
(* operator runs, and inputs that end in white space or a comment.         *)
(***************************************************************************)
SeqsUpTo(alphabet, n) == UNION {[1..k -> alphabet] : k \in 0..n}

VarStatementSource ==
  Bytes(<<"v", "a", "r", " ", "x", " ", "=", " ", "1", " ", "+", " ", "2", ";">>)

OperatorLeads ==
  { Ord(ch) : ch \in { "{", "}", "(", ")", "[", "]", ";", ",", ":", "?", "~", ".", "<", ">",
                       "=", "!", "+", "-", "*", "/", "%", "&", "|", "^" } }

OperatorSources ==
  UNION { { <<lead>> \o rest : rest \in SeqsUpTo({lead, Ord("="), Ord(">")}, MaxOperatorTail) }
          : lead \in OperatorLeads }

EndingSources ==
  { Bytes(<<>>), Bytes(<<" ">>), Bytes(<<"x", " ">>), Bytes(<<"x">>) \o <<LEXER_NEWLINE_LF>>,
    Bytes(<<"x", "/", "/", "c">>), Bytes(<<"x", "/", "*", "c", "*", "/">>),
    Bytes(<<"x", "/", "*", "c", "*", "/", " ">>), Bytes(<<";">>) \o <<LEXER_TAB>>,
    Bytes(<<".", "5">>), Bytes(<<"a", ".", "b">>), Bytes(<<".", ".", "5">>),
    Bytes(<<"1", ".", ".", ".">>), Bytes(<<"'", "s", "'", " ">>) }

TokenSources == {VarStatementSource} \cup OperatorSources \cup EndingSources

\* The memory behind the buffer, as far as an over-read could tell.
TokenTails == { <<0>>, <<Ord("=")>>, <<Ord(">")>> }

InitTokens == InitWith(TokenSources, TokenTails, {{}})

NextTokens == NextToken

SpecTokens == InitTokens /\ [][NextTokens]_vars

(***************************************************************************)
(* C1  "var x = 1 + 2;" is returned as: keyword var, identifier x, assign, *)
(* number 1, add, number 2, semicolon, end-of-stream (and end-of-stream    *)
(* again on every later call).                                             *)
(***************************************************************************)
VarStatementTokens ==
  << [type |-> "LEXER_KEYW_VAR", literal_type |-> "none", text |-> <<>>],
     [type |-> "LEXER_LITERAL", literal_type |-> "LEXER_IDENT_LITERAL", text |-> Bytes(<<"x">>)],
     [type |-> "LEXER_ASSIGN", literal_type |-> "none", text |-> <<>>],
     [type |-> "LEXER_LITERAL", literal_type |-> "LEXER_NUMBER_LITERAL", text |-> Bytes(<<"1">>)],
     [type |-> "LEXER_ADD", literal_type |-> "none", text |-> <<>>],
     [type |-> "LEXER_LITERAL", literal_type |-> "LEXER_NUMBER_LITERAL", text |-> Bytes(<<"2">>)],
     [type |-> "LEXER_SEMICOLON", literal_type |-> "none", text |-> <<>>],
     [type |-> "LEXER_EOS", literal_type |-> "none", text |-> <<>>] >>

Kind(view) == [type |-> view.type, literal_type |-> view.literal_type, text |-> view.text]

C1_VarStatementTokens ==
  source = VarStatementSource =>
    /\ ~Failed(context)
    /\ \A i \in 1..Len(history) :
         Kind(history[i]) = VarStatementTokens[IF i < 8 THEN i ELSE 8]

C1_Witness ==
  source = VarStatementSource /\ Len(history) >= 8

(***************************************************************************)
(* C2  Once lexer_next_token has returned the end-of-stream token, every   *)
(* further call returns end-of-stream again and leaves the cursor, the     *)
(* line and the column where they were.                                    *)
(***************************************************************************)
ReturnedEos == history # <<>> /\ history[Len(history)].type = "LEXER_EOS"

CalledNextToken == result'.op = "lexer_next_token"

C2_EosIsSticky ==
  [][ ReturnedEos /\ CalledNextToken =>
        /\ ~Failed(context')
        /\ Len(history') = Len(history) + 1
        /\ history'[Len(history')].type = "LEXER_EOS"
        /\ context'.token.type = "LEXER_EOS"
        /\ context'.source_p = context.source_p
        /\ context'.line = context.line
        /\ context'.column = context.column ]_vars

C2_Witness ==
  /\ Len(history) >= 3
  /\ history[Len(history)].type = "LEXER_EOS"
  /\ history[Len(history) - 1].type = "LEXER_EOS"
  /\ history[Len(history) - 2].type # "LEXER_EOS"
  /\ context.source_p = source_end_p

(***************************************************************************)
(* C3  When the input left after white space and comments starts with an   *)
(* operator (a dot directly followed by a digit starts a number and is not *)
(* one), lexer_next_token returns the token of the longest operator        *)
(* spelling that is a prefix of the input left, advances the cursor and    *)
(* the column by exactly the length of that spelling, and the result does  *)
(* not depend on any byte behind the end of the input.                     *)
(***************************************************************************)
Op(text, type) == [spelling |-> Bytes(text), type |-> type]

OperatorSpellings ==
  { Op(<<"{">>, "LEXER_LEFT_BRACE"), Op(<<"(">>, "LEXER_LEFT_PAREN"),
    Op(<<"[">>, "LEXER_LEFT_SQUARE"), Op(<<"}">>, "LEXER_RIGHT_BRACE"),
    Op(<<")">>, "LEXER_RIGHT_PAREN"), Op(<<"]">>, "LEXER_RIGHT_SQUARE"),
    Op(<<";">>, "LEXER_SEMICOLON"), Op(<<",">>, "LEXER_COMMA"),
    Op(<<".">>, "LEXER_DOT"), Op(<<".", ".", ".">>, "LEXER_THREE_DOTS"),
    Op(<<"<">>, "LEXER_LESS"), Op(<<"<", "=">>, "LEXER_LESS_EQUAL"),
    Op(<<"<", "<">>, "LEXER_LEFT_SHIFT"), Op(<<"<", "<", "=">>, "LEXER_ASSIGN_LEFT_SHIFT"),
    Op(<<">">>, "LEXER_GREATER"), Op(<<">", "=">>, "LEXER_GREATER_EQUAL"),
    Op(<<">", ">">>, "LEXER_RIGHT_SHIFT"), Op(<<">", ">", "=">>, "LEXER_ASSIGN_RIGHT_SHIFT"),
    Op(<<">", ">", ">">>, "LEXER_UNS_RIGHT_SHIFT"),
    Op(<<">", ">", ">", "=">>, "LEXER_ASSIGN_UNS_RIGHT_SHIFT"),
    Op(<<"=">>, "LEXER_ASSIGN"), Op(<<"=", "=">>, "LEXER_EQUAL"),
    Op(<<"=", "=", "=">>, "LEXER_STRICT_EQUAL"), Op(<<"=", ">">>, "LEXER_ARROW"),
    Op(<<"!">>, "LEXER_LOGICAL_NOT"), Op(<<"!", "=">>, "LEXER_NOT_EQUAL"),
    Op(<<"!", "=", "=">>, "LEXER_STRICT_NOT_EQUAL"),
    Op(<<"+">>, "LEXER_ADD"), Op(<<"+", "=">>, "LEXER_ASSIGN_ADD"),
    Op(<<"+", "+">>, "LEXER_INCREASE"),
    Op(<<"-">>, "LEXER_SUBTRACT"), Op(<<"-", "=">>, "LEXER_ASSIGN_SUBTRACT"),
    Op(<<"-", "-">>, "LEXER_DECREASE"),
    Op(<<"*">>, "LEXER_MULTIPLY"), Op(<<"*", "=">>, "LEXER_ASSIGN_MULTIPLY"),
    Op(<<"/">>, "LEXER_DIVIDE"), Op(<<"/", "=">>, "LEXER_ASSIGN_DIVIDE"),
    Op(<<"%">>, "LEXER_MODULO"), Op(<<"%", "=">>, "LEXER_ASSIGN_MODULO"),
    Op(<<"&">>, "LEXER_BIT_AND"), Op(<<"&", "=">>, "LEXER_ASSIGN_BIT_AND"),
    Op(<<"&", "&">>, "LEXER_LOGICAL_AND"),
    Op(<<"|">>, "LEXER_BIT_OR"), Op(<<"|", "=">>, "LEXER_ASSIGN_BIT_OR"),
    Op(<<"|", "|">>, "LEXER_LOGICAL_OR"),
    Op(<<"^">>, "LEXER_BIT_XOR"), Op(<<"^", "=">>, "LEXER_ASSIGN_BIT_XOR"),
    Op(<<"~">>, "LEXER_BIT_NOT"), Op(<<"?">>, "LEXER_QUESTION_MARK"),
    Op(<<":">>, "LEXER_COLON") }

\* The operator spellings that are a prefix of source[start .. end of input).
PrefixOperators(start) ==
  { op \in OperatorSpellings :
      /\ start + Len(op.spelling) <= Len(source)
      /\ \A i \in 1..Len(op.spelling) : source[start + i] = op.spelling[i] }

LongestOperator(start) ==
  CHOOSE op \in PrefixOperators(start) :
    \A other \in PrefixOperators(start) : Len(other.spelling) <= Len(op.spelling)

StartsNumber(start) ==
  /\ start + 2 <= Len(source)
  /\ source[start + 1] = Ord(".")
  /\ IsDecimalDigit(source[start + 2])

\* The position and column where the next token starts.
TokenStart == lexer_skip_spaces(context)

StartsOperator ==
  /\ ~Failed(TokenStart)
  /\ PrefixOperators(TokenStart.source_p) # {}
  /\ ~StartsNumber(TokenStart.source_p)

C3_LongestOperator ==
  [][ CalledNextToken /\ StartsOperator =>
        LET op == LongestOperator(TokenStart.source_p)
        IN /\ ~Failed(context')
           /\ context'.token.type = op.type
           /\ context'.source_p = TokenStart.source_p + Len(op.spelling)
           /\ context'.column = TokenStart.column + Len(op.spelling)
           /\ context'.line = TokenStart.line
           /\ context'.source_p <= source_end_p ]_vars

\* An operator of four bytes, one that ends the input where a longer
\* spelling would go on, and one scanned after another.
C3_Witness ==
  /\ Len(history) >= 2
  /\ history[Len(history)].type \in {"LEXER_ASSIGN_UNS_RIGHT_SHIFT", "LEXER_MULTIPLY"}
  /\ context.source_p = source_end_p
  /\ tail = <<Ord("=")>>

(***************************************************************************)
(* Keywords: the sources are single identifiers: every entry of the        *)
(* keyword tables, the entry with one byte changed, shortened, lengthened, *)
(* and with its first or last byte written as a \u escape.                 *)
(***************************************************************************)
Range(seq) == {seq[i] : i \in 1..Len(seq)}

KeywordEntries == UNION {Range(keyword_strings_list[i]) : i \in 1..Len(keyword_strings_list)}

HexDigitOf(value) == IF value < 10 THEN Ord("0") + value ELSE Ord("a") + (value - 10)

UnicodeEscapeOf(byte) ==
  Bytes(<<"\\", "u", "0", "0">>) \o <<HexDigitOf(byte \div 16), HexDigitOf(byte % 16)>>

EscapedAt(text, i) ==
  SubSeq(text, 1, i - 1) \o UnicodeEscapeOf(text[i]) \o SubSeq(text, i + 1, Len(text))

SpellingsNear(text) ==
  {text, SubSeq(text, 1, Len(text) - 1), text \o Bytes(<<"s">>),
   EscapedAt(text, 1), EscapedAt(text, Len(text))}
    \cup {[text EXCEPT ![i] = byte] : i \in 1..Len(text), byte \in {Ord("a"), Ord("z")}}

IdentifierSources == UNION {SpellingsNear(entry.keyword_p) : entry \in KeywordEntries}

InitKeywords == InitWith(IdentifierSources, {<<0>>}, {{}, {"PARSER_IS_STRICT"}})

NextKeywords == NextToken

SpecKeywords == InitKeywords /\ [][NextKeywords]_vars

\* The state in which the first call of lexer_next_token has returned or
\* raised its error.
AfterFirstToken ==
  /\ result.op = "lexer_next_token"
  /\ Len(history) <= 1
  /\ history = <<>> => Failed(context)

\* The words that are reserved in strict mode only.
FutureStrictReservedSpellings ==
  { Bytes(<<"i", "m", "p", "l", "e", "m", "e", "n", "t", "s">>), Bytes(<<"l", "e", "t">>),
    Bytes(<<"p", "r", "i", "v", "a", "t", "e">>), Bytes(<<"p", "u", "b", "l", "i", "c">>),
    Bytes(<<"y", "i", "e", "l", "d">>),
    Bytes(<<"i", "n", "t", "e", "r", "f", "a", "c", "e">>),
    Bytes(<<"p", "a", "c", "k", "a", "g", "e">>),
    Bytes(<<"p", "r", "o", "t", "e", "c", "t", "e", "d">>),
    Bytes(<<"s", "t", "a", "t", "i", "c">>) }

\* The token is an identifier literal that spans the whole source.
IdentifierOfSource ==
  /\ ~Failed(context)
  /\ context.token.type = "LEXER_LITERAL"
  /\ context.token.lit_location.type = "LEXER_IDENT_LITERAL"
  /\ context.token.lit_location.char_p = 0
  /\ context.source_p = source_end_p

PlainIdentifier == IdentifierOfSource /\ ~context.token.literal_is_reserved

(***************************************************************************)
(* C4  An identifier is classified by the keyword tables exactly when its  *)
(* spelling has no \u escape and its bytes equal an entry of the tables    *)
(* (whose entries have 2 to 10 bytes): the binary search finds every       *)
(* entry, an entry that is no future strict reserved word gives the token  *)
(* of its keyword type, and every identifier that equals no entry, an      *)
(* escaped spelling of a keyword included, is a plain identifier literal.  *)
(***************************************************************************)
C4_KeywordClassification ==
  AfterFirstToken =>
    LET entries == {entry \in KeywordEntries : entry.keyword_p = source}
    IN /\ \A entry \in KeywordEntries : Len(entry.keyword_p) \in 2..10
       /\ entries = {} => PlainIdentifier
       /\ \A entry \in entries :
            IF source \in FutureStrictReservedSpellings
              THEN ~PlainIdentifier
              ELSE /\ ~Failed(context)
                   /\ context.token.type = entry.type
                   /\ context.source_p = source_end_p

C4_Witness ==
  /\ AfterFirstToken
  /\ source = Bytes(<<"i", "n", "s", "t", "a", "n", "c", "e", "o", "f">>)
  /\ context.token.type = "LEXER_KEYW_INSTANCEOF"

(***************************************************************************)
(* C5  A future strict reserved word is returned, outside strict mode, as  *)
(* an identifier literal with literal_is_reserved set, and raises          *)
(* PARSER_ERR_STRICT_IDENT_NOT_ALLOWED in strict mode.                     *)
(***************************************************************************)
C5_FutureStrictReserved ==
  AfterFirstToken /\ source \in FutureStrictReservedSpellings =>
    IF "PARSER_IS_STRICT" \in context.status_flags
      THEN context.error = "PARSER_ERR_STRICT_IDENT_NOT_ALLOWED" /\ history = <<>>
      ELSE /\ IdentifierOfSource
           /\ context.token.literal_is_reserved
           /\ context.token.lit_location.length = Len(source)
           /\ ~context.token.lit_location.has_escape

C5_Witness ==
  /\ AfterFirstToken
  /\ source = Bytes(<<"i", "m", "p", "l", "e", "m", "e", "n", "t", "s">>)
  /\ IdentifierOfSource
  /\ context.token.literal_is_reserved

(***************************************************************************)
(* The literal pool: the sources are short runs of identifiers, strings,   *)
(* numbers, function keywords and regular expressions, some of them        *)
(* spelled with escapes, and long enough to fill the pool.                 *)
(***************************************************************************)
PoolSources ==
  { Bytes(<<"a", " ", "\\", "u", "0", "0", "6", "1", " ", "a", " ", "b">>),
    Bytes(<<"'", "a", "'", " ", "'", "\\", "x", "6", "1", "'", " ", "a", " ",
            "\"", "a", "\"">>),
    Bytes(<<"a", " ", "b", " ", "c", " ", "a", " ", "d">>),
    Bytes(<<"a", "b", " ", "a", "\\", "u", "0", "0", "6", "2", " ", "'", "a", "b", "'">>),
    Bytes(<<"3", "0", "0", " ", "1", " ", "a">>),
    Bytes(<<"f", "u", "n", "c", "t", "i", "o", "n", " ", "a", " ",
            "f", "u", "n", "c", "t", "i", "o", "n", " ", "3", "0", "0">>),
    Bytes(<<"/", "r", "/", "g", " ", "a", " ", "/", "r", "/", "g", " ", "/", "=", "/">>),
    Bytes(<<"1", " ", "0", " ", "a">>),
    Bytes(<<"'", "'", " ", "\"", "\"", " ", "a", " ", "'", "a", "'">>) }

InitPool == InitWith(PoolSources, {<<0>>}, {{}})

NextPool ==
  \/ NextToken
  \/ ConstructLiteral
  \/ ConstructNumber
  \/ EmitPushNumber
  \/ ConvertPushNumber
  \/ ConstructFunction
  \/ ConstructRegexp

SpecPool == InitPool /\ [][NextPool]_vars

\* The bytes a spelling stands for: the UTF-8 encoding of its code points,
\* where \uHHHH and \xHH stand for the code point they name.
Utf8Of(code_point) ==
  IF code_point < 128 THEN <<code_point>>
  ELSE IF code_point < 2048
    THEN <<192 + (code_point \div 64), 128 + (code_point % 64)>>
    ELSE <<224 + (code_point \div 4096), 128 + ((code_point \div 64) % 64),
           128 + (code_point % 64)>>

HexValueOf(byte) == CHOOSE value \in 0..15 : HexDigitOf(value) = BitOr20(byte)

RECURSIVE HexNumberAt(_, _)
HexNumberAt(p, digits) ==
  IF digits = 0 THEN 0
  ELSE HexNumberAt(p, digits - 1) * 16 + HexValueOf(Byte(p + digits - 1))

RECURSIVE SpelledBytesFrom(_, _)
SpelledBytesFrom(p, length) ==
  IF length <= 0 THEN <<>>
  ELSE IF Byte(p) = Ord("\\") /\ Byte(p + 1) = Ord("u")
    THEN LET bytes == Utf8Of(HexNumberAt(p + 2, 4))
         IN bytes \o SpelledBytesFrom(p + 6, length - Len(bytes))
  ELSE IF Byte(p) = Ord("\\") /\ Byte(p + 1) = Ord("x")
    THEN LET bytes == Utf8Of(HexNumberAt(p + 2, 2))
         IN bytes \o SpelledBytesFrom(p + 4, length - Len(bytes))
  ELSE <<Byte(p)>> \o SpelledBytesFrom(p + 1, length - 1)

SpelledBytes(location) == SpelledBytesFrom(location.char_p, location.length)

\* What identifies a pool entry.
Identity(literal) == [type |-> literal.type, length |-> literal.length, value |-> literal.value]

CharLiteralTypes == {"LEXER_IDENT_LITERAL", "LEXER_STRING_LITERAL"}

NoDuplicateCharLiterals ==
  \A i, j \in 1..context.literal_count :
    /\ i < j
    /\ context.literal_pool[i].type \in CharLiteralTypes
    => Identity(context.literal_pool[i]) # Identity(context.literal_pool[j])

\* The entries of the pool that are the literal lexer_construct_literal_object
\* is about to build from the current token.
PresentEntries(literal_type) ==
  { i \in 1..Len(context.literal_pool) :
      /\ context.literal_pool[i].type = literal_type
      /\ context.literal_pool[i].value = SpelledBytes(context.token.lit_location) }

(***************************************************************************)
(* C6  The pool never holds two identifier or string entries of the same   *)
(* kind, length and decoded bytes; building a literal that is present      *)
(* returns the index of the entry there is and appends nothing.            *)
(***************************************************************************)
C6_NoDuplicateLiterals ==
  /\ []NoDuplicateCharLiterals
  /\ [][ /\ result'.op = "lexer_construct_literal_object"
         /\ PresentEntries(result'.literal_type) # {}
         => /\ ~Failed(context')
            /\ Len(context'.literal_pool) = Len(context.literal_pool)
            /\ context'.literal_count = context.literal_count
            /\ context'.lit_object.index + 1 \in PresentEntries(result'.literal_type)
            /\ context'.lit_object.literal_p = context'.lit_object.index + 1 ]_vars

\* The escaped spelling of an identifier that is in the pool has been built.
C6_Witness ==
  /\ result.op = "lexer_construct_literal_object"
  /\ ~Failed(context)
  /\ context.token.lit_location.has_escape
  /\ context.literal_count = 1
  /\ context.lit_object.index = 0
  /\ "LEXER_FLAG_SOURCE_PTR" \in context.literal_pool[1].status_flags

(***************************************************************************)
(* C7  The pool only grows: no call lowers literal_count or removes an     *)
(* entry, a call appends at most one entry, the index of a new entry is    *)
(* literal_count as it was before the call, and the index, the kind and    *)
(* the content of the entries there were stay as they are.                 *)
(***************************************************************************)
ReturnedIndex(c, call) ==
  IF call.op = "lexer_construct_function_object" THEN call.return
  ELSE IF call.op = "lexer_convert_push_number_to_push_literal"
    THEN IF c.last_cbc_opcode = "CBC_PUSH_TWO_LITERALS"
           THEN c.last_cbc.value ELSE c.last_cbc.literal_index
  ELSE c.lit_object.index

C7_PoolAppendOnly ==
  [][ /\ context'.literal_count >= context.literal_count
      /\ Len(context'.literal_pool) >= Len(context.literal_pool)
      /\ Len(context'.literal_pool) <= Len(context.literal_pool) + 1
      /\ \A i \in 1..Len(context.literal_pool) :
           Identity(context'.literal_pool[i]) = Identity(context.literal_pool[i])
      /\ Len(context'.literal_pool) > Len(context.literal_pool) =>
           /\ Len(context.literal_pool) = context.literal_count
           /\ ~Failed(context') =>
                /\ context'.literal_count = context.literal_count + 1
                /\ ReturnedIndex(context', result') = context.literal_count ]_vars

\* The third entry was appended behind two others by the function builder.
C7_Witness ==
  /\ result.op = "lexer_construct_function_object"
  /\ ~Failed(context)
  /\ result.return = 2
  /\ context.literal_count = 3
  /\ context.literal_pool[3].type = "LEXER_FUNCTION_LITERAL"
  /\ context.literal_pool[1].type = "LEXER_FUNCTION_LITERAL"
  /\ context.literal_pool[2].type = "LEXER_IDENT_LITERAL"

(***************************************************************************)
(* C8  With literal_count at the limit, a call that has to append raises   *)
(* PARSER_ERR_LITERAL_LIMIT_REACHED and appends nothing, and a look-up     *)
(* that finds its literal in the pool still succeeds.                      *)
(***************************************************************************)
RegexpScanErrors ==
  { "PARSER_ERR_UNTERMINATED_REGEXP", "PARSER_ERR_NEWLINE_NOT_ALLOWED",
    "PARSER_ERR_DUPLICATED_REGEXP_FLAG", "PARSER_ERR_UNKNOWN_REGEXP_FLAG",
    "PARSER_ERR_REGEXP_TOO_LONG" }

LimitReached(c) == c.error = "PARSER_ERR_LITERAL_LIMIT_REACHED"

C8_LiteralLimit ==
  /\ [](context.literal_count <= MaxLiterals /\ Len(context.literal_pool) <= MaxLiterals)
  /\ [][ context.literal_count = MaxLiterals =>
           /\ Len(context'.literal_pool) = Len(context.literal_pool)
           /\ context'.literal_count = context.literal_count
           /\ result'.op = "lexer_construct_literal_object" =>
                IF PresentEntries(result'.literal_type) # {}
                  THEN /\ ~Failed(context')
                       /\ context'.lit_object.index + 1 \in PresentEntries(result'.literal_type)
                  ELSE LimitReached(context')
           /\ result'.op = "lexer_construct_function_object" => LimitReached(context')
           /\ result'.op = "lexer_construct_number_object" =>
                IF result'.return THEN ~Failed(context') ELSE LimitReached(context')
           /\ result'.op = "lexer_construct_regexp_object" =>
                IF result'.parse_only
                  THEN Failed(context') => context'.error \in RegexpScanErrors
                  ELSE LimitReached(context') \/ context'.error \in RegexpScanErrors
           /\ result'.op = "lexer_convert_push_number_to_push_literal" =>
                IF Failed(context')
                  THEN LimitReached(context')
                  ELSE context'.literal_pool[ReturnedIndex(context', result') + 1].type
                         = "LEXER_NUMBER_LITERAL" ]_vars

\* The pool is full, a fourth literal was refused, after a look-up in the
\* full pool had found its literal.
C8_Witness ==
  /\ context.literal_count = MaxLiterals
  /\ Len(context.literal_pool) = MaxLiterals
  /\ LimitReached(context)
  /\ result.op = "lexer_construct_literal_object"
  /\ Len(history) >= MaxLiterals + 2

(***************************************************************************)
(* Identifier comparison: the sources are two identifiers, each spelled    *)
(* raw, with escapes or with both, and what follows the second one.  The   *)
(* parser builds the literal of the first, keeps its location and index,   *)
(* scans the second and compares.                                          *)
(***************************************************************************)
EscapeOf(hex) == Bytes(<<"\\", "u">> \o hex)

IdentifierSpellings ==
  { Bytes(<<"a">>), EscapeOf(<<"0", "0", "6", "1">>),
    Bytes(<<"b">>), EscapeOf(<<"0", "0", "6", "2">>),
    Bytes(<<"a", "b">>), Bytes(<<"a">>) \o EscapeOf(<<"0", "0", "6", "2">>),
    EscapeOf(<<"0", "0", "6", "1">>) \o EscapeOf(<<"0", "0", "6", "2">>),
    <<195, 169>>, EscapeOf(<<"0", "0", "e", "9">>), EscapeOf(<<"0", "0", "E", "9">>) }

CompareTrailers == { Bytes(<<>>), Bytes(<<";">>) }

CompareSources ==
  { first \o Bytes(<<" ">>) \o second \o trailer :
      first \in IdentifierSpellings, second \in IdentifierSpellings,
      trailer \in CompareTrailers }

CompareTails == { <<0>>, <<Ord(" ")>> }

InitCompare == InitWith(CompareSources, CompareTails, {{}})

NextCompare ==
  \/ NextToken
  \/ ConstructLiteral
  \/ SaveLiteral
  \/ CompareIdentifier

SpecCompare == InitCompare /\ [][NextCompare]_vars

\* The kept identifier and the current one are spellings of the same bytes.
SameIdentifier == SpelledBytes(saved[1].location) = SpelledBytes(context.token.lit_location)

Compared == result.op = "lexer_compare_identifier_to_current"

(***************************************************************************)
(* C9  Two spellings of the same code points get the same pool index from  *)
(* lexer_construct_literal_object called with the same literal kind, and   *)
(* lexer_compare_identifier_to_current reports them equal.                 *)
(***************************************************************************)
C9_SpellingsAgree ==
  [][ /\ /\ result'.op = "lexer_construct_literal_object"
         /\ ~Failed(context')
         /\ saved # <<>>
         /\ result'.literal_type = saved[1].literal_type
         /\ SameIdentifier
         => context'.lit_object.index = saved[1].index
      /\ /\ result'.op = "lexer_compare_identifier_to_current"
         /\ SameIdentifier
         => result'.return ]_vars

\* Both spellings of "a" are the escape sequence, the same literal was found
\* for both, and the comparison has reported them different.
C9_Witness ==
  /\ Compared
  /\ source = EscapeOf(<<"0", "0", "6", "1">>) \o Bytes(<<" ">>)
                \o EscapeOf(<<"0", "0", "6", "1">>) \o Bytes(<<";">>)
  /\ context.lit_object.index = saved[1].index
  /\ context.literal_count = 1
  /\ ~result.return

(***************************************************************************)
(* C10  lexer_compare_identifier_to_current returns non-zero exactly when  *)
(* the current identifier and the given one decode to the same bytes,      *)
(* whatever the spelling of either and whatever follows them.              *)
(***************************************************************************)
C10_CompareIsDecodedEquality ==
  [][ result'.op = "lexer_compare_identifier_to_current"
        => (result'.return <=> SameIdentifier) ]_vars

\* Both identifiers have an escape sequence at the same position and spell
\* the same bytes; the comparison went on past their end and reported them
\* different.
C10_Witness ==
  /\ Compared
  /\ SameIdentifier
  /\ saved[1].location.has_escape
  /\ context.token.lit_location.has_escape
  /\ ~result.overrun
  /\ ~result.return
  /\ result.left_p > saved[1].location.char_p + 6 * saved[1].location.length
       \/ result.count > 0

(***************************************************************************)
(* String and template literals: the sources are a quote, up to MaxPieces  *)
(* of the pieces a string is made of (characters, escape sequences, line   *)
(* continuations, line terminators, a four byte sequence), and the closing *)
(* quote or the end of the input; template literals with backslashes,      *)
(* dollar signs and braces; and the template of the example.               *)
(***************************************************************************)
Backslash == Ord("\\")

FourByteSequence == <<240, 159, 152, 128>>

LineTerminators ==
  { <<LEXER_NEWLINE_LF>>, <<LEXER_NEWLINE_CR>>, <<LEXER_NEWLINE_CR, LEXER_NEWLINE_LF>>,
    <<LEXER_NEWLINE_LS_PS_BYTE_1, 128, 168>>, <<LEXER_NEWLINE_LS_PS_BYTE_1, 128, 169>> }

EscapePieces ==
  { Bytes(<<"\\", "n">>), Bytes(<<"\\", "\\">>), Bytes(<<"\\", "1">>),
    Bytes(<<"\\", "3", "7", "7">>), Bytes(<<"\\", "4", "7">>),
    Bytes(<<"\\", "x", "4", "1">>), Bytes(<<"\\", "u", "0", "0", "e", "9">>),
    <<Backslash, LEXER_NEWLINE_LF>>, <<Backslash, LEXER_NEWLINE_CR>>,
    <<Backslash, LEXER_NEWLINE_CR, LEXER_NEWLINE_LF>>,
    <<Backslash, LEXER_NEWLINE_LS_PS_BYTE_1, 128, 168>> }

PlainPieces == { Bytes(<<"a">>), <<195, 169>>, <<LEXER_TAB>>, FourByteSequence }

StringPieces == EscapePieces \cup PlainPieces \cup LineTerminators

Concatenation(pieces) ==
  LET RECURSIVE Flat(_)
      Flat(i) == IF i > Len(pieces) THEN <<>> ELSE pieces[i] \o Flat(i + 1)
  IN Flat(1)

StringBodies == { Concatenation(pieces) : pieces \in SeqsUpTo(StringPieces, MaxPieces) }

TemplateBodies ==
  { Concatenation(pieces) :
      pieces \in SeqsUpTo({ Bytes(<<"\\", "\\">>), Bytes(<<"\\", "$">>), Bytes(<<"$">>),
                            Bytes(<<"{">>), Bytes(<<"a">>) }, MaxPieces + 2) }

TemplateExample == Bytes(<<"backtick", "a", "$", "{", "b", "}", "c", "backtick">>)

StringLeads == { <<>>, <<LEXER_NEWLINE_LF>> \o Bytes(<<" ">>) }

Quotes == { Ord("'"), Ord("backtick") }

\* A quote on the second line, a body, and the closing quote or the end of
\* the input.
StringSources ==
  { lead \o <<quote>> \o body \o (IF closed THEN <<quote>> ELSE <<>>) :
      lead \in StringLeads \ {<<>>}, quote \in Quotes, body \in StringBodies,
      closed \in BOOLEAN }

\* The same in strict mode, at the start of the input.
StrictStringSources ==
  { <<quote>> \o body \o (IF closed THEN <<quote>> ELSE <<>>) :
      quote \in Quotes, body \in StringBodies, closed \in BOOLEAN }

TemplateSources ==
  { Bytes(<<"backtick">>) \o body \o Bytes(<<"backtick">>) : body \in TemplateBodies }
    \cup { TemplateExample }

InitStrings ==
  \/ InitWith(StringSources, {<<0>>}, {{}})
  \/ InitWith(StrictStringSources, {<<0>>}, {{"PARSER_IS_STRICT"}})
  \/ InitWith(TemplateSources, {<<0>>}, {{}})

NextStrings ==
  \/ NextToken
  \/ ParseTemplateString
  \/ ConstructLiteral

SpecStrings == InitStrings /\ [][NextStrings]_vars

\* lexer_construct_literal_object has decoded the escape sequences of the
\* current string or template literal.
DecodedString ==
  /\ result.op = "lexer_construct_literal_object"
  /\ context.token.lit_location.type = "LEXER_STRING_LITERAL"
  /\ context.token.lit_location.has_escape

(***************************************************************************)
(* C11  For every string or template literal the scanner accepts, the      *)
(* decoding loop of lexer_construct_literal_object writes exactly          *)
(* lit_location.length bytes, whatever escape sequences, line              *)
(* continuations and four byte sequences the literal has, also in a        *)
(* template literal where a backslash sequence directly precedes the       *)
(* dollar sign and brace.                                                  *)
(***************************************************************************)
C11_DecodedLengthIsScannedLength ==
  DecodedString => result.written = context.token.lit_location.length

\* The template literal is an escaped backslash followed by the dollar sign
\* and the brace: the scanner counted three bytes, the decoder wrote one.
C11_Witness ==
  /\ DecodedString
  /\ source = Bytes(<<"backtick", "\\", "\\", "$", "{", "backtick">>)
  /\ context.token.lit_location.length = 3
  /\ result.written = 1

\* The token kinds and contents of a history.
Segment(view) ==
  [type |-> view.type, literal_type |-> view.literal_type,
   content |-> IF view.length <= Len(view.text) THEN SubSeq(view.text, 1, view.length)
               ELSE view.text]

TemplateSegment(content) ==
  [type |-> "LEXER_TEMPLATE_LITERAL", literal_type |-> "LEXER_STRING_LITERAL",
   content |-> content]

IdentifierToken(content) ==
  [type |-> "LEXER_LITERAL", literal_type |-> "LEXER_IDENT_LITERAL", content |-> content]

\* The parser has resumed the template of the example after the embedded
\* expression.
ResumedExample ==
  /\ source = TemplateExample
  /\ result.op = "lexer_parse_string"
  /\ ~Failed(context)

(***************************************************************************)
(* C12 as stated: the tokens of the template literal a${b}c are the text    *)
(* segment a, then a token for the boundary of the embedded expression,    *)
(* then the identifier b, then the resumed text segment c.                 *)
(***************************************************************************)
C12_BoundaryTokenBeforeExpression ==
  ResumedExample =>
    /\ Len(history) = 4
    /\ Segment(history[1]) = TemplateSegment(Bytes(<<"a">>))
    /\ history[2].literal_type = "none"
    /\ Segment(history[3]) = IdentifierToken(Bytes(<<"b">>))
    /\ Segment(history[4]) = TemplateSegment(Bytes(<<"c">>))

(***************************************************************************)
(* C12 amended: the scan of the text segment a (length 1, the dollar sign  *)
(* not counted) consumes the dollar sign and the brace and returns no      *)
(* token for them; the next tokens are the identifier b and the right      *)
(* brace, and the scan the parser resumes at that brace returns the text   *)
(* segment c.                                                              *)
(***************************************************************************)
TemplateExampleTokens ==
  << TemplateSegment(Bytes(<<"a">>)), IdentifierToken(Bytes(<<"b">>)),
     [type |-> "LEXER_RIGHT_BRACE", literal_type |-> "none", content |-> <<>>],
     TemplateSegment(Bytes(<<"c">>)) >>

C12_TemplateExampleTokens ==
  /\ source = TemplateExample /\ Len(history) >= 1 =>
       /\ Segment(history[1]) = TemplateExampleTokens[1]
       /\ history[1].text = Bytes(<<"a", "$", "{">>)
  /\ source = TemplateExample /\ Len(history) >= 2 =>
       Segment(history[2]) = TemplateExampleTokens[2]
  /\ source = TemplateExample /\ Len(history) >= 3 =>
       Segment(history[3]) = TemplateExampleTokens[3]
  /\ ResumedExample =>
       /\ Len(history) = 4
       /\ Segment(history[4]) = TemplateExampleTokens[4]
       /\ context.source_p = source_end_p

C12_Witness ==
  /\ ResumedExample
  /\ Len(history) = 4
  /\ history[4].type = "LEXER_TEMPLATE_LITERAL"
  /\ history[3].type = "LEXER_RIGHT_BRACE"

\* Strings that lack the closing quote and have nothing else wrong: the
\* octal escapes are left out in strict mode, the line terminators in
\* strings that are not template literals.
OctalPieces ==
  { Bytes(<<"\\", "1">>), Bytes(<<"\\", "3", "7", "7">>), Bytes(<<"\\", "4", "7">>) }

BenignPieces == EscapePieces \cup PlainPieces

OpenBodies(pieces) == { Concatenation(seq) : seq \in SeqsUpTo(pieces, MaxPieces) }

OpenSources(quote, pieces) ==
  { lead \o Bytes(<<quote>>) \o body : lead \in StringLeads, body \in OpenBodies(pieces) }

OpenStrings == OpenSources("'", BenignPieces)

OpenTemplates == OpenSources("backtick", BenignPieces \cup LineTerminators)

OpenStrictStrings == OpenSources("'", BenignPieces \ OctalPieces)

OpenStrictTemplates == OpenSources("backtick", (BenignPieces \ OctalPieces) \cup LineTerminators)

OpenStringLead ==
  IF source # <<>> /\ source[1] = LEXER_NEWLINE_LF THEN <<LEXER_NEWLINE_LF>> \o Bytes(<<" ">>)
  ELSE <<>>

UnterminatedSource ==
  IF "PARSER_IS_STRICT" \in context.status_flags
    THEN source \in OpenStrictStrings \/ source \in OpenStrictTemplates
    ELSE source \in OpenStrings \/ source \in OpenTemplates

\* Line and column of the quote that follows the lead.
OpeningQuoteLine == IF OpenStringLead = <<>> THEN 1 ELSE 2

OpeningQuoteColumn == IF OpenStringLead = <<>> THEN 1 ELSE 2

UnterminatedStringRaised == context.error = "PARSER_ERR_UNTERMINATED_STRING"

(***************************************************************************)
(* C13  When the input ends before the closing quote, lexer_parse_string   *)
(* raises PARSER_ERR_UNTERMINATED_STRING and the token line and column     *)
(* are those of the opening quote, whatever the scan has passed (line      *)
(* continuations, escape sequences, line terminators of a template).       *)
(***************************************************************************)
C13_UnterminatedStringAtOpeningQuote ==
  /\ UnterminatedStringRaised =>
       /\ Byte(context.source_p) \in { Ord("'"), Ord("\""), Ord("backtick"), Ord("}") }
       /\ context.token.line = context.line
       /\ context.token.column = context.column
  /\ UnterminatedStringRaised /\ history = <<>> =>
       /\ context.source_p = Len(OpenStringLead)
       /\ context.token.line = OpeningQuoteLine
       /\ context.token.column = OpeningQuoteColumn
  /\ UnterminatedSource /\ result.op # "none" =>
       UnterminatedStringRaised /\ history = <<>>

\* A template literal on the second line, with a line terminator and a line
\* continuation in it, ends with the input: the error is at line 2, column 2.
C13_Witness ==
  /\ UnterminatedStringRaised
  /\ UnterminatedSource
  /\ source = <<LEXER_NEWLINE_LF>> \o Bytes(<<" ", "backtick">>) \o <<LEXER_NEWLINE_CR>>
                \o <<Backslash, LEXER_NEWLINE_LF>>
  /\ context.token.line = 2
  /\ context.token.column = 2

\* Pieces of known decoded length and width: a character, a two byte
\* character, an escape sequence of one character, or nothing.
SimplePieces == { <<>>, Bytes(<<"a">>), <<195, 169>>, Bytes(<<"\\", "n">>) }

PieceLength(piece) ==
  IF piece = <<>> THEN 0 ELSE IF piece[1] = Backslash THEN 1 ELSE Len(piece)

PieceColumns(piece) ==
  IF piece = <<>> THEN 0 ELSE IF piece[1] = Backslash THEN 2 ELSE 1

LeadLines(lead) == Cardinality({ i \in 1..Len(lead) : lead[i] = LEXER_NEWLINE_LF })

\* A quoted literal with one unescaped line terminator in it, and what a
\* template literal of that content comes to.
NewlineCases(quote, closings) ==
  { [source |-> lead \o Bytes(<<quote>>) \o pre \o terminator \o post \o closing,
     length |-> PieceLength(pre) + Len(terminator) + PieceLength(post),
     line |-> 1 + LeadLines(lead) + 1,
     column |-> 1 + PieceColumns(post) + 1] :
      lead \in StringLeads, pre \in SimplePieces, terminator \in LineTerminators,
      post \in SimplePieces, closing \in closings }

StringNewlineSources ==
  { case.source : case \in NewlineCases("'", { <<>>, Bytes(<<"'">>) }) }

TemplateNewlineCases == NewlineCases("backtick", { Bytes(<<"backtick">>) })

TemplateNewlineSources == { case.source : case \in TemplateNewlineCases }

NewlineNotAllowedRaised == context.error = "PARSER_ERR_NEWLINE_NOT_ALLOWED"

(***************************************************************************)
(* C14  An unescaped line terminator (LF, CR, CR LF, U+2028, U+2029) in a  *)
(* quoted string raises PARSER_ERR_NEWLINE_NOT_ALLOWED.  In a template     *)
(* literal it is accepted: its bytes are counted in the length of the      *)
(* literal, the line is one more (once for CR LF) and the column starts    *)
(* again at 1.                                                             *)
(***************************************************************************)
C14_LineTerminatorInStringAndTemplate ==
  /\ source \in StringNewlineSources /\ result.op # "none" =>
       NewlineNotAllowedRaised /\ history = <<>>
  /\ NewlineNotAllowedRaised => Byte(context.source_p) = Ord("'")
  /\ Len(history) = 1 /\ result.op = "lexer_next_token" =>
       \A case \in TemplateNewlineCases :
         case.source = source =>
           /\ ~Failed(context)
           /\ history[1].type = "LEXER_TEMPLATE_LITERAL"
           /\ history[1].length = case.length
           /\ context.line = case.line
           /\ context.column = case.column

\* The template literal on the second line holds CR LF and a character: it
\* has three bytes, and the scan ends on line 3 after column 2.
C14_Witness ==
  /\ source = <<LEXER_NEWLINE_LF>> \o Bytes(<<" ", "backtick">>)
                \o <<LEXER_NEWLINE_CR, LEXER_NEWLINE_LF>> \o Bytes(<<"a", "backtick">>)
  /\ source \in TemplateNewlineSources
  /\ Len(history) = 1
  /\ result.op = "lexer_next_token"
  /\ history[1].type = "LEXER_TEMPLATE_LITERAL"
  /\ history[1].length = 3
  /\ context.line = 3
  /\ context.column = 3

(***************************************************************************)
(* Number literals: the sources are a number of each form the grammar has  *)
(* (hexadecimal, legacy octal, decimal with and without fraction and       *)
(* exponent), complete or cut short, and the byte that follows it.  Each   *)
(* case records the number, what follows and what the grammar prescribes   *)
(* outside and inside strict mode.                                         *)
(***************************************************************************)
NumberCase(text, follower, loose, strict) ==
  [source |-> text \o follower, length |-> Len(text), loose |-> loose, strict |-> strict]

Same(text, follower, outcome) == NumberCase(text, follower, outcome, outcome)

HexPrefixes == { Bytes(<<"0", "x">>), Bytes(<<"0", "X">>) }

HexDigitRuns == { Bytes(<<"1">>), Bytes(<<"F">>), Bytes(<<"a">>), Bytes(<<"1", "e">>), Bytes(<<"e", "9">>), Bytes(<<"1", "0", "0">>), Bytes(<<"1", "0", "1">>) }

OctalDigitRuns == { Bytes(<<"0">>), Bytes(<<"7">>), Bytes(<<"1", "7">>), Bytes(<<"4", "0", "0">>), Bytes(<<"4", "0", "1">>) }

IntegerParts == { Bytes(<<"0">>), Bytes(<<"1">>), Bytes(<<"9">>), Bytes(<<"1", "2">>), Bytes(<<"2", "5", "6">>), Bytes(<<"2", "5", "7">>) }

FractionParts == { <<>>, Bytes(<<".">>), Bytes(<<".", "5">>), Bytes(<<".", "0", "5">>) }

ExponentParts == { <<>>, Bytes(<<"e", "1">>), Bytes(<<"E", "1">>), Bytes(<<"e", "+", "1">>), Bytes(<<"e", "-", "1", "2">>) }

ExponentMarkers == { Bytes(<<"e">>), Bytes(<<"E">>), Bytes(<<"e", "+">>), Bytes(<<"e", "-">>) }

NumberEnds == { <<>>, Bytes(<<";">>), Bytes(<<" ">>) }

IdentifierStarts == { Bytes(<<"g">>), Bytes(<<"$">>), Bytes(<<"_">>), Bytes(<<"\\">>) }

HexadecimalCases ==
  { Same(prefix \o digits, follower, "LEXER_NUMBER_HEXADECIMAL") :
      prefix \in HexPrefixes, digits \in HexDigitRuns, follower \in NumberEnds }
    \cup { Same(prefix \o digits, follower, "PARSER_ERR_IDENTIFIER_AFTER_NUMBER") :
             prefix \in HexPrefixes, digits \in HexDigitRuns, follower \in IdentifierStarts }
    \cup { Same(prefix, follower, "PARSER_ERR_INVALID_HEX_DIGIT") :
             prefix \in HexPrefixes, follower \in NumberEnds \cup IdentifierStarts }

OctalCases ==
  { NumberCase(Bytes(<<"0">>) \o digits, follower, "LEXER_NUMBER_OCTAL",
               "PARSER_ERR_OCTAL_NUMBER_NOT_ALLOWED") :
      digits \in OctalDigitRuns, follower \in NumberEnds }
    \cup { NumberCase(Bytes(<<"0">>) \o digits, follower, "PARSER_ERR_IDENTIFIER_AFTER_NUMBER",
                      "PARSER_ERR_OCTAL_NUMBER_NOT_ALLOWED") :
             digits \in OctalDigitRuns, follower \in IdentifierStarts \cup { Bytes(<<"a">>), Bytes(<<"e">>) } }
    \cup { NumberCase(Bytes(<<"0">>) \o digits, follower, "PARSER_ERR_INVALID_NUMBER",
                      "PARSER_ERR_OCTAL_NUMBER_NOT_ALLOWED") :
             digits \in OctalDigitRuns, follower \in { Bytes(<<"8">>), Bytes(<<"9">>), Bytes(<<"8", "1">>), Bytes(<<"9", ";">>) } }
    \cup { Same(Bytes(<<"0">>), follower, "PARSER_ERR_INVALID_NUMBER") :
             follower \in { Bytes(<<"8">>), Bytes(<<"9">>), Bytes(<<"8", "1">>), Bytes(<<"9", ";">>) } }

DecimalTexts ==
  { integer \o fraction : integer \in IntegerParts, fraction \in FractionParts }
    \cup { Bytes(<<".", "5">>), Bytes(<<".", "1", "2">>) }

DecimalCases ==
  { Same(text \o exponent, follower, "LEXER_NUMBER_DECIMAL") :
      text \in DecimalTexts, exponent \in ExponentParts, follower \in NumberEnds }
    \cup { Same(text \o exponent, follower, "PARSER_ERR_IDENTIFIER_AFTER_NUMBER") :
             text \in DecimalTexts, exponent \in ExponentParts,
             follower \in { Bytes(<<"a">>), Bytes(<<"\\">>), Bytes(<<"$">>) } }
    \cup { Same(text \o marker, follower, "PARSER_ERR_MISSING_EXPONENT") :
             text \in DecimalTexts, marker \in ExponentMarkers,
             follower \in NumberEnds \cup { Bytes(<<"a">>), Bytes(<<"+">>) } }

NumberCases == HexadecimalCases \cup OctalCases \cup DecimalCases

NumberSources == { case.source : case \in NumberCases }

InitNumbers == InitWith(NumberSources, {<<0>>}, {{}, {"PARSER_IS_STRICT"}})

NextNumbers ==
  \/ NextToken
  \/ ConstructNumber

SpecNumbers == InitNumbers /\ [][NextNumbers]_vars

\* What the grammar prescribes for the number the source starts with.
Prescribed(case) ==
  IF "PARSER_IS_STRICT" \in context.status_flags THEN case.strict ELSE case.loose

NumberErrors ==
  { "PARSER_ERR_INVALID_HEX_DIGIT", "PARSER_ERR_OCTAL_NUMBER_NOT_ALLOWED",
    "PARSER_ERR_INVALID_NUMBER", "PARSER_ERR_MISSING_EXPONENT",
    "PARSER_ERR_IDENTIFIER_AFTER_NUMBER" }

\* The first lexer_next_token has returned or raised its error.
FirstTokenScanned ==
  /\ result.op = "lexer_next_token"
  /\ Len(history) = (IF Failed(context) THEN 0 ELSE 1)

NumberAccepted(case, form) ==
  /\ ~Failed(context)
  /\ context.token.type = "LEXER_LITERAL"
  /\ context.token.lit_location.type = "LEXER_NUMBER_LITERAL"
  /\ context.token.extra_value = form
  /\ context.token.lit_location.char_p = 0
  /\ context.token.lit_location.length = case.length
  /\ context.source_p = case.length
  /\ context.column = 1 + case.length
  /\ context.line = 1

(***************************************************************************)
(* C15  lexer_parse_number classifies its input as the number grammar      *)
(* prescribes.  0x or 0X with a hexadecimal digit is a hexadecimal number  *)
(* and without one raises PARSER_ERR_INVALID_HEX_DIGIT; 0 and an octal     *)
(* digit is an octal number outside strict mode and raises                 *)
(* PARSER_ERR_OCTAL_NUMBER_NOT_ALLOWED in strict mode; 08, 09, or an 8 or  *)
(* 9 after the octal digits raises PARSER_ERR_INVALID_NUMBER; an exponent  *)
(* marker without a digit raises PARSER_ERR_MISSING_EXPONENT; a byte that  *)
(* starts an identifier, or a backslash, right after the number raises     *)
(* PARSER_ERR_IDENTIFIER_AFTER_NUMBER.  Of an accepted number the length   *)
(* of the literal and the advance of the column are the bytes consumed.    *)
(***************************************************************************)
C15_NumberClassification ==
  FirstTokenScanned =>
    \A case \in NumberCases :
      case.source = source =>
        IF Prescribed(case) \in NumberErrors
          THEN context.error = Prescribed(case)
          ELSE NumberAccepted(case, Prescribed(case))

\* 017 is the octal number of three bytes outside strict mode.
C15_Witness ==
  /\ FirstTokenScanned
  /\ source = Bytes(<<"0", "1", "7">>)
  /\ source \in NumberSources
  /\ context.token.extra_value = "LEXER_NUMBER_OCTAL"
  /\ context.token.lit_location.length = 3
  /\ context.column = 4

\* lexer_construct_number_object is called on the number literal of the
\* current token.
NumberObjectCall ==
  /\ ~Failed(context)
  /\ IsLiteralToken(context, {"LEXER_NUMBER_LITERAL"})
  /\ result'.op = "lexer_construct_number_object"
  /\ <<context, result>>' # <<context, result>>

NumberObjectValue ==
  util_get_number(context.token.lit_location.char_p, context.token.lit_location.length)

\* In an expression, an integer of at most 256 that is not a negated zero.
ImmediateNumber ==
  /\ result'.is_expr
  /\ NumberObjectValue <= 256
  /\ ~(NumberObjectValue = 0 /\ result'.is_negative_number)

NumberEntryAppended ==
  /\ Len(context'.literal_pool) = Len(context.literal_pool) + 1
  /\ SubSeq(context'.literal_pool, 1, Len(context.literal_pool)) = context.literal_pool
  /\ context'.literal_pool[Len(context'.literal_pool)].type = "LEXER_NUMBER_LITERAL"
  /\ context'.literal_count = context.literal_count + 1
  /\ context'.lit_object.index = context.literal_count
  /\ context'.lit_object.literal_p = Len(context'.literal_pool)

(***************************************************************************)
(* C16  In an expression, for a literal whose integer value is at most     *)
(* 256 and is not a negated zero, lexer_construct_number_object returns    *)
(* true with the value in lit_object.index and leaves the literal pool     *)
(* and literal_count as they were.  In every other case it returns false   *)
(* after it has appended exactly one number entry, whose index it leaves   *)
(* in lit_object.index, unless it raises an error.                         *)
(***************************************************************************)
C16_SmallNumberOrOneEntry ==
  [][NumberObjectCall =>
       IF ImmediateNumber
         THEN /\ result'.return
              /\ ~Failed(context')
              /\ context'.lit_object.index = NumberObjectValue
              /\ context'.literal_pool = context.literal_pool
              /\ context'.literal_count = context.literal_count
         ELSE /\ ~result'.return
              /\ Failed(context') \/ NumberEntryAppended]_vars

\* 256 in an expression is returned as a small number and the pool is
\* still empty.
C16_Witness ==
  /\ source = Bytes(<<"2", "5", "6">>)
  /\ result.op = "lexer_construct_number_object"
  /\ result.is_expr
  /\ result.return
  /\ context.lit_object.index = 256
  /\ context.literal_pool = <<>>
  /\ context.literal_count = 0

(***************************************************************************)
(* Spaces and comments: the sources are runs of up to MaxGap pieces, each  *)
(* a space, a tab, a line terminator, a no-break space, a comment opener   *)
(* or closer, or a token; and some longer ones.                            *)
(***************************************************************************)
GapPieces ==
  LineTerminators
    \cup { Bytes(<<" ">>), <<LEXER_TAB>>, <<194, 160>>, Bytes(<<"/", "/">>),
           Bytes(<<"/", "*">>), Bytes(<<"*", "/">>), Bytes(<<"a">>), Bytes(<<"=", ">">>) }

LongGapSources ==
  { Bytes(<<"/", "*">>) \o <<LEXER_NEWLINE_CR, LEXER_NEWLINE_LF>> \o Bytes(<<"*", "/">>)
      \o <<226, 128, 169>> \o Bytes(<<"a">>),
    Bytes(<<"a", " ", "/", "/", " ", "/", "*">>) \o <<LEXER_NEWLINE_LF>>
      \o Bytes(<<"/", "*", " ", "/", "/">>) \o <<226, 128, 168>> \o Bytes(<<"*", "/", " ", "a">>),
    Bytes(<<"a", " ", "/", "*", "a", "*", "/", " ", "/", "/", "a">>) \o <<LEXER_NEWLINE_CR>>
      \o <<LEXER_TAB>> \o Bytes(<<"a">>) }

GapSources == { Concatenation(pieces) : pieces \in SeqsUpTo(GapPieces, MaxGap) }

\* What stands before a block comment, with the line and the column of the
\* byte after it.
CommentPrefixes ==
  { [text |-> <<>>, line |-> 1, column |-> 1],
    [text |-> Bytes(<<"a", " ">>), line |-> 1, column |-> 3],
    [text |-> <<LEXER_NEWLINE_LF>> \o Bytes(<<" ">>), line |-> 2, column |-> 2],
    [text |-> <<LEXER_TAB>>, line |-> 1, column |-> 9],
    [text |-> Bytes(<<"/", "/", "a">>) \o <<LEXER_NEWLINE_LF>>, line |-> 2, column |-> 1],
    [text |-> Bytes(<<"/", "*", " ", "*", "/", " ">>), line |-> 1, column |-> 7],
    [text |-> Bytes(<<"/", "*", "a", "*", "/", " ">>), line |-> 1, column |-> 7] }

\* The inside of a block comment: no asterisk is followed by a slash.
CommentBodies ==
  { <<>>, Bytes(<<"a">>), Bytes(<<"*">>), Bytes(<<"/">>), Bytes(<<"*", "*">>),
    Bytes(<<"*", " ", "/">>), Bytes(<<"/", "*">>), Bytes(<<"/", "/">>),
    <<LEXER_NEWLINE_LF>>, Bytes(<<"a">>) \o <<LEXER_NEWLINE_CR>> \o Bytes(<<"*">>) }

\* What stands after the closer of a block comment; none of it opens
\* another block comment that the input ends in.
CommentRests ==
  { <<>>, Bytes(<<" ", "a">>), Bytes(<<"/", "/">>), Bytes(<<"/", "/", " ", "/", "*">>) }

\* A block comment opened at the given line and column, and whether the
\* input ends inside it.
CommentCases ==
  { [source |-> prefix.text \o Bytes(<<"/", "*">>) \o body, unterminated |-> TRUE,
     line |-> prefix.line, column |-> prefix.column] :
      prefix \in CommentPrefixes, body \in CommentBodies }
    \cup { [source |-> prefix.text \o Bytes(<<"/", "*">>) \o body \o Bytes(<<"*", "/">>) \o rest,
            unterminated |-> FALSE, line |-> prefix.line, column |-> prefix.column] :
             prefix \in CommentPrefixes, body \in CommentBodies, rest \in CommentRests }

CommentSources == { case.source : case \in CommentCases }

InitSpaces ==
  \/ InitWith(GapSources, {<<0>>}, {{}})
  \/ InitWith(LongGapSources, {<<0>>}, {{}})
  \/ InitWith(CommentSources, {<<0>>}, {{}})

NextSpaces ==
  \/ NextToken
  \/ CheckNextCharacter
  \/ CheckArrow

SpecSpaces == InitSpaces /\ [][NextSpaces]_vars

\* A line terminator starts at the i-th byte of the source: LF that is not
\* the second byte of CR LF, CR, U+2028 or U+2029.
TerminatorStartsAt(i) ==
  \/ source[i] = LEXER_NEWLINE_CR
  \/ source[i] = LEXER_NEWLINE_LF /\ (i = 1 \/ source[i - 1] # LEXER_NEWLINE_CR)
  \/ /\ i + 2 <= Len(source)
     /\ source[i] = 226
     /\ source[i + 1] = 128
     /\ source[i + 2] \in {168, 169}

\* The number of line terminators in the first n bytes of the source.
TerminatorsBefore(n) == Cardinality({ i \in 1..n : TerminatorStartsAt(i) })

\* A line terminator ends with the n-th byte of the source.
TerminatorEndsAt(n) ==
  /\ n >= 1
  /\ \/ source[n] \in {LEXER_NEWLINE_LF, LEXER_NEWLINE_CR}
     \/ n >= 3 /\ TerminatorStartsAt(n - 2) /\ source[n - 2] = 226

\* The token is one whose first byte is known from the context: an
\* identifier, or the end of the input.
TokenWithStart ==
  /\ result.op = "lexer_next_token"
  /\ ~Failed(context)
  /\ context.token.type = "LEXER_EOS" \/ IsLiteralToken(context, {"LEXER_IDENT_LITERAL"})

FirstByteOfToken ==
  IF context.token.type = "LEXER_EOS" THEN context.source_p
  ELSE context.token.lit_location.char_p

(***************************************************************************)
(* C17  Each line terminator lexer_skip_spaces consumes (LF, CR, CR LF as  *)
(* one, U+2028, U+2029, in a comment or not) increases the line by one     *)
(* and leaves column 1 for the byte after it.  The line never decreases    *)
(* and the column is reset only when the line increases.                   *)
(***************************************************************************)
C17_LineTerminatorsCounted ==
  /\ [](TokenWithStart =>
          /\ context.token.line = 1 + TerminatorsBefore(FirstByteOfToken)
          /\ TerminatorEndsAt(FirstByteOfToken) => context.token.column = 1)
  /\ [][/\ context'.line >= context.line
        /\ context'.column < context.column => context'.line > context.line]_vars

\* After a block comment with CR LF in it and a U+2029, the identifier is
\* on line 3 in column 1.
C17_Witness ==
  /\ TokenWithStart
  /\ source = Bytes(<<"/", "*">>) \o <<LEXER_NEWLINE_CR, LEXER_NEWLINE_LF>>
                \o Bytes(<<"*", "/">>) \o <<226, 128, 169>> \o Bytes(<<"a">>)
  /\ FirstByteOfToken = 9
  /\ context.token.line = 3
  /\ context.token.column = 1

(***************************************************************************)
(* Tabs: the sources are up to MaxIndent spaces and then one or two tabs   *)
(* before an identifier, in a string, or in a regular expression.          *)
(***************************************************************************)
Spaces(n) == [i \in 1..n |-> Ord(" ")]

\* The smallest column of the form 8k + 1 that is at least column + 1.
NextTabStop(column) == CHOOSE stop \in (column + 1)..(column + 8) : stop % 8 = 1

TabRuns == { <<LEXER_TAB>>, <<LEXER_TAB, LEXER_TAB>> }

\* The column after the tabs that start in the given column.
AfterTabs(tabs, column) ==
  IF Len(tabs) = 1 THEN NextTabStop(column) ELSE NextTabStop(NextTabStop(column))

\* column is the column of the identifier, or the column after the closing
\* quote or slash: the tabs are in column n + 1 before the identifier and
\* in column n + 2 after the opening quote or slash.
TabCases ==
  { [source |-> Spaces(n) \o tabs \o Bytes(<<"a">>), kind |-> "identifier",
     column |-> AfterTabs(tabs, n + 1)] : n \in 0..MaxIndent, tabs \in TabRuns }
    \cup { [source |-> Spaces(n) \o Bytes(<<"'">>) \o tabs \o Bytes(<<"'">>), kind |-> "string",
            column |-> AfterTabs(tabs, n + 2) + 1] : n \in 0..MaxIndent, tabs \in TabRuns }
    \cup { [source |-> Spaces(n) \o Bytes(<<"/">>) \o tabs \o Bytes(<<"/">>), kind |-> "regexp",
            column |-> AfterTabs(tabs, n + 2) + 1] : n \in 0..MaxIndent, tabs \in TabRuns }

InitTabs == InitWith({ case.source : case \in TabCases }, {<<0>>}, {{}})

NextTabs ==
  \/ NextToken
  \/ ConstructRegexp

SpecTabs == InitTabs /\ [][NextTabs]_vars

\* The first token has been scanned, and the regular expression if the
\* token is its opening slash.
TabsPassed(case) ==
  /\ ~Failed(context)
  /\ Len(history) = 1
  /\ case.source = source
  /\ IF case.kind = "regexp" THEN result.op = "lexer_construct_regexp_object"
     ELSE result.op = "lexer_next_token"

(***************************************************************************)
(* C18  A tab advances the column to the next multiple of 8 plus 1:        *)
(* align_column_to_tab maps 0 to 1 and 5 to 9, and every column c to the   *)
(* smallest value of the form 8k + 1 that is at least c + 1; it does so    *)
(* for the tabs lexer_skip_spaces skips and for the tabs in strings and    *)
(* in regular expressions.                                                 *)
(***************************************************************************)
C18_TabStops ==
  /\ align_column_to_tab(0) = 1
  /\ align_column_to_tab(5) = 9
  /\ \A column \in 0..(MaxIndent + 24) : align_column_to_tab(column) = NextTabStop(column)
  /\ \A case \in TabCases :
       TabsPassed(case) =>
         IF case.kind = "identifier" THEN context.token.column = case.column
         ELSE context.column = case.column

\* Seven spaces, a slash in column 8 and a tab in column 9: the tab ends in
\* column 17 and the regular expression in column 18.
C18_Witness ==
  /\ source = Spaces(7) \o Bytes(<<"/">>) \o <<LEXER_TAB>> \o Bytes(<<"/">>)
  /\ result.op = "lexer_construct_regexp_object"
  /\ ~Failed(context)
  /\ context.column = 18

\* The token is the first one, or the one after the identifier the source
\* starts with: what lies between the previous token and this one is the
\* source up to this token, less that identifier.
AfterFirstIdentifier ==
  \/ Len(history) = 1
  \/ /\ Len(history) = 2
     /\ history[1].type = "LEXER_LITERAL"
     /\ history[1].text = Bytes(<<"a">>)
     /\ source[1] = Ord("a")

WasNewline == "LEXER_WAS_NEWLINE" \in context.token.flags

(***************************************************************************)
(* C19  After lexer_next_token returns, LEXER_WAS_NEWLINE is set in the    *)
(* flags of the token if and only if a line terminator was consumed        *)
(* between the end of the previous token and the start of this one, also   *)
(* when lexer_check_next_character or lexer_check_arrow had consumed it    *)
(* before.                                                                 *)
(***************************************************************************)
C19_WasNewlineFlag ==
  TokenWithStart /\ AfterFirstIdentifier =>
    (WasNewline <=> TerminatorsBefore(FirstByteOfToken) > 0)

\* lexer_check_arrow or lexer_check_next_character has skipped the line
\* feed after the first identifier; the identifier that lexer_next_token
\* returns then has the flag.
C19_Witness ==
  /\ TokenWithStart
  /\ result.already_skipped
  /\ source = Bytes(<<"a">>) \o <<LEXER_NEWLINE_LF>> \o Bytes(<<"a">>)
  /\ Len(history) = 2
  /\ WasNewline
  /\ FirstByteOfToken = 2

UnterminatedCommentRaised == context.error = "PARSER_ERR_UNTERMINATED_MULTILINE_COMMENT"

\* The source has a comment opener with no closer after it.
OpenerWithoutCloser ==
  \E i \in 1..(Len(source) - 1) :
    /\ source[i] = Ord("/") /\ source[i + 1] = Ord("*")
    /\ \A j \in (i + 2)..(Len(source) - 1) : ~(source[j] = Ord("*") /\ source[j + 1] = Ord("/"))

(***************************************************************************)
(* C20  lexer_skip_spaces raises PARSER_ERR_UNTERMINATED_MULTILINE_COMMENT *)
(* if and only if the input ends inside a block comment, and the token     *)
(* line and column are then the position of the opener of that comment.    *)
(* An opener inside a comment opens nothing, and the end of the input      *)
(* inside a line comment is no error.                                      *)
(***************************************************************************)
C20_UnterminatedCommentAtOpener ==
  /\ UnterminatedCommentRaised => OpenerWithoutCloser
  /\ \A case \in CommentCases :
       case.source = source =>
         IF case.unterminated
           THEN /\ context.token.type # "LEXER_EOS"
                /\ Failed(context) =>
                     /\ UnterminatedCommentRaised
                     /\ context.token.line = case.line
                     /\ context.token.column = case.column
           ELSE ~Failed(context)

\* The input ends in the second block comment of the line.  Its opener is
\* in column 7; the column reported is 6, the character in the first
\* comment not having been counted.
C20_Witness ==
  /\ source = Bytes(<<"/", "*", "a", "*", "/", " ", "/", "*">>)
  /\ UnterminatedCommentRaised
  /\ context.token.line = 1
  /\ context.token.column = 6

AlreadySkipped == "LEXER_NO_SKIP_SPACES" \in context.token.flags

LookaheadCalled == result'.op \in {"lexer_check_next_character", "lexer_check_arrow"}

\* The byte at the cursor is one that lexer_skip_spaces consumes.
BlankAtCursor ==
  /\ context.source_p < source_end_p
  /\ Byte(context.source_p) \in {Ord(" "), LEXER_TAB, LEXER_NEWLINE_LF, LEXER_NEWLINE_CR}

(***************************************************************************)
(* C21  LEXER_NO_SKIP_SPACES is one-shot.  A lookahead sets it; a lookahead*)
(* called while it is set leaves the cursor, the line and the column where *)
(* the first call left them; the lexer_next_token that follows starts its  *)
(* token at the cursor without consuming anything and clears the flag; and *)
(* a lexer_next_token called while the flag is clear skips the blank at    *)
(* the cursor.                                                             *)
(***************************************************************************)
C21_AlreadySkippedIsOneShot ==
  [][/\ LookaheadCalled /\ ~Failed(context') => AlreadySkipped'
     /\ LookaheadCalled /\ AlreadySkipped =>
          /\ context'.source_p = context.source_p
          /\ context'.line = context.line
          /\ context'.column = context.column
          /\ context'.token = context.token
     /\ CalledNextToken => ~AlreadySkipped'
     /\ CalledNextToken /\ AlreadySkipped /\ TokenWithStart' =>
          /\ FirstByteOfToken' = context.source_p
          /\ context'.token.line = context.line
          /\ context'.token.column = context.column
     /\ CalledNextToken /\ ~AlreadySkipped /\ BlankAtCursor /\ TokenWithStart' =>
          FirstByteOfToken' > context.source_p]_vars

\* After the first identifier of "a a" a lookahead has skipped the space;
\* lexer_next_token found the flag set, started the second identifier at the
\* cursor, in column 3, and cleared the flag.
C21_Witness ==
  /\ source = Bytes(<<"a", " ", "a">>)
  /\ result.op = "lexer_next_token"
  /\ result.already_skipped
  /\ ~AlreadySkipped
  /\ Len(history) = 2
  /\ FirstByteOfToken = 2
  /\ context.token.column = 3

(***************************************************************************)
(* Arrow detection: the sources are an identifier, what lexer_skip_spaces  *)
(* passes over (blanks, line terminators, comments), and what the parser   *)
(* looks ahead at.                                                         *)
(***************************************************************************)
\* What lies between the identifier and the byte looked at, and whether a
\* line terminator is in it.
ArrowGaps ==
  { [text |-> <<>>, newline |-> FALSE],
    [text |-> Bytes(<<" ">>), newline |-> FALSE],
    [text |-> <<LEXER_TAB>> \o Bytes(<<" ">>), newline |-> FALSE],
    [text |-> <<194, 160>>, newline |-> FALSE],
    [text |-> Bytes(<<"/", "*", "=", ">", "*", "/">>), newline |-> FALSE],
    [text |-> Bytes(<<" ", "/", "*", ",", "*", "/", " ">>), newline |-> FALSE],
    [text |-> <<LEXER_NEWLINE_LF>>, newline |-> TRUE],
    [text |-> <<LEXER_NEWLINE_CR, LEXER_NEWLINE_LF>> \o Bytes(<<" ">>), newline |-> TRUE],
    [text |-> Bytes(<<" ">>) \o <<226, 128, 168>>, newline |-> TRUE],
    [text |-> Bytes(<<"/", "/", ")">>) \o <<LEXER_NEWLINE_LF>>, newline |-> TRUE],
    [text |-> Bytes(<<"/", "*">>) \o <<LEXER_NEWLINE_CR>> \o Bytes(<<"*", "/">>),
     newline |-> TRUE] }

\* What follows the gap, and what lexer_check_arrow is to say of it when no
\* line terminator is in the gap.
ArrowFollowers ==
  { [text |-> Bytes(<<",">>), type |-> "LEXER_COMMA"],
    [text |-> Bytes(<<")">>), type |-> "LEXER_RIGHT_PAREN"],
    [text |-> Bytes(<<"=", ">">>), type |-> "LEXER_ARROW"],
    [text |-> Bytes(<<"=">>), type |-> "LEXER_EOS"],
    [text |-> Bytes(<<"=", " ", ">">>), type |-> "LEXER_EOS"],
    [text |-> Bytes(<<"=", "=">>), type |-> "LEXER_EOS"],
    [text |-> Bytes(<<">">>), type |-> "LEXER_EOS"],
    [text |-> Bytes(<<":">>), type |-> "LEXER_EOS"],
    [text |-> Bytes(<<"(">>), type |-> "LEXER_EOS"],
    [text |-> Bytes(<<"b">>), type |-> "LEXER_EOS"],
    [text |-> <<>>, type |-> "LEXER_EOS"] }

ArrowCases ==
  { [source |-> Bytes(<<"a">>) \o gap.text \o follower.text, gap |-> gap,
     follower |-> follower] : gap \in ArrowGaps, follower \in ArrowFollowers }

\* The input ends with "=" and the memory after it starts with ">".
InitArrow ==
  \/ InitWith({ case.source : case \in ArrowCases }, {<<0>>}, {{}})
  \/ InitWith({ Bytes(<<"a", " ", "=">>) }, {<<Ord(">")>>}, {{}})

NextArrow ==
  \/ NextToken
  \/ CheckNextCharacter
  \/ CheckArrow
  \/ ConstructLiteral

SpecArrow == InitArrow /\ [][NextArrow]_vars

\* The context less the cursor, the line, the column, the token flags and
\* the token position.
BesidesCursor(c) ==
  [c EXCEPT !.source_p = 0, !.line = 0, !.column = 0, !.token.flags = {},
            !.token.line = 0, !.token.column = 0]

\* The flags of the token less LEXER_NO_SKIP_SPACES.
FlagsBesidesSkip(c) == c.token.flags \ {"LEXER_NO_SKIP_SPACES"}

TokenPosition(c) == <<c.token.line, c.token.column>>

\* No block comment opens between the two positions of the source.
NoOpenerBetween(p, q) ==
  \A i \in p..(q - 2) : ~(Byte(i) = Ord("/") /\ Byte(i + 1) = Ord("*"))

(***************************************************************************)
(* C22 as stated: apart from setting LEXER_NO_SKIP_SPACES, a call of       *)
(* lexer_check_next_character or lexer_check_arrow changes no lexer state: *)
(* not the cursor, the line, the column, the token type, the token         *)
(* position, the token flags or the literal pool.                          *)
(***************************************************************************)
C22_LookaheadChangesOnlyTheFlag ==
  [][LookaheadCalled =>
       /\ BesidesCursor(context') = BesidesCursor(context)
       /\ context'.source_p = context.source_p
       /\ context'.line = context.line
       /\ context'.column = context.column
       /\ TokenPosition(context') = TokenPosition(context)
       /\ FlagsBesidesSkip(context') = FlagsBesidesSkip(context)]_vars

(***************************************************************************)
(* C22  A call of lexer_check_next_character or lexer_check_arrow that     *)
(* returns leaves the token type, the literal location and the literal     *)
(* pool as they were, and the token position too unless it passed the      *)
(* opener of a block comment.  It moves the cursor, the line and the       *)
(* column over the blanks and comments before the next token and sets the  *)
(* token flags anew; what lexer_next_token does afterwards is what it      *)
(* would have done without the call.                                       *)
(***************************************************************************)
C22_LookaheadIsTransparent ==
  [][LookaheadCalled /\ ~Failed(context') =>
       /\ BesidesCursor(context') = BesidesCursor(context)
       /\ context'.source_p >= context.source_p
       /\ NoOpenerBetween(context.source_p, context'.source_p) =>
            TokenPosition(context') = TokenPosition(context)
       /\ lexer_next_token(context') = lexer_next_token(context)]_vars

\* After the identifier of "a /*,*/ ," was stored in the pool, a lookahead
\* moved the cursor over the comment to the comma; the token is still the
\* identifier and the pool still has its one literal, and the token column
\* is that of the comment.
C22_Witness ==
  /\ source = Bytes(<<"a", " ", "/", "*", ",", "*", "/", " ", ",">>)
  /\ result.op = "lexer_check_arrow"
  /\ result.return = "LEXER_COMMA"
  /\ Len(history) = 1
  /\ context.source_p = 8
  /\ context.token.type = "LEXER_LITERAL"
  /\ context.token.column = 3
  /\ Len(context.literal_pool) = 1

\* lexer_check_arrow was called after the first token, the identifier.
ArrowChecked == result.op = "lexer_check_arrow" /\ Len(history) = 1

\* What the statement prescribes for a case.
ArrowPrescribed(case) ==
  IF case.follower.type = "LEXER_ARROW" /\ case.gap.newline
    THEN "LEXER_EOS"
    ELSE case.follower.type

(***************************************************************************)
(* C23  lexer_check_arrow returns LEXER_COMMA if the next byte that is not *)
(* skipped is a comma, LEXER_RIGHT_PAREN if it is a right parenthesis,     *)
(* LEXER_ARROW if it is "=" with ">" right after it and no line terminator *)
(* was skipped since the previous token, and LEXER_EOS otherwise: "=>"     *)
(* after a line terminator, "=" at the end of the input, any other byte,   *)
(* the end of the input.                                                   *)
(***************************************************************************)
C23_CheckArrowReturn ==
  ArrowChecked =>
    \A case \in ArrowCases :
      case.source = source => result.return = ArrowPrescribed(case)

\* "=>" on the line after the identifier is no arrow.
C23_Witness ==
  /\ ArrowChecked
  /\ source = Bytes(<<"a">>) \o <<LEXER_NEWLINE_LF>> \o Bytes(<<"=", ">">>)
  /\ result.return = "LEXER_EOS"
  /\ WasNewline
  /\ context.source_p = 2

(***************************************************************************)
(* The names eval and arguments: the sources are one or two of these       *)
(* names, names that differ from them in one place, and escaped and quoted *)
(* spellings of them; inside a with statement, with the arguments object   *)
(* known not to be needed, or neither.                                     *)
(***************************************************************************)
SpecialWords ==
  { Bytes(<<"e", "v", "a", "l">>),
    Bytes(<<"a", "r", "g", "u", "m", "e", "n", "t", "s">>),
    Bytes(<<"e", "v", "i", "l">>),
    Bytes(<<"e", "v", "a", "l", "s">>),
    Bytes(<<"a", "r", "g", "u", "m", "i", "n", "t", "s">>),
    Bytes(<<"\\", "u", "0", "0", "6", "5", "v", "a", "l">>),
    Bytes(<<"a", "r", "g", "u", "m", "e", "n", "t", "\\", "u", "0", "0", "7", "3">>),
    Bytes(<<"'", "e", "v", "a", "l", "'">>),
    Bytes(<<"'", "a", "r", "g", "u", "m", "e", "n", "t", "s", "'">>) }

SpecialSources ==
  { first \o second : first \in SpecialWords,
                      second \in {<<>>} \cup { Bytes(<<" ">>) \o word : word \in SpecialWords } }

SpecialFlagSets == { {}, {"PARSER_INSIDE_WITH"}, {"PARSER_ARGUMENTS_NOT_NEEDED"} }

InitSpecial == InitWith(SpecialSources, {<<0>>}, SpecialFlagSets)

NextSpecial ==
  \/ NextToken
  \/ ConstructLiteral

SpecSpecial == InitSpecial /\ [][NextSpecial]_vars

\* lexer_construct_literal_object has returned.
LiteralConstructed == result'.op = "lexer_construct_literal_object" /\ ~Failed(context')

\* The decoded bytes of the literal of the current token.
DecodedName == SpelledBytes(context.token.lit_location)

NamedEval == DecodedName = Bytes(<<"e", "v", "a", "l">>)

NamedArguments == DecodedName = Bytes(<<"a", "r", "g", "u", "m", "e", "n", "t", "s">>)

\* The pool entry of the literal object.
ObjectEntry(c) == c.literal_pool[c.lit_object.literal_p]

NoRegStore(literal) == "LEXER_FLAG_NO_REG_STORE" \in literal.status_flags

ArgumentsFlags == {"PARSER_ARGUMENTS_NEEDED", "PARSER_LEXICAL_ENV_NEEDED"}

Letters(n, letter) == [i \in 1..n |-> Ord(letter)]

LongLengths ==
  { LEXER_MAX_LITERAL_LOCAL_BUFFER_SIZE - 1, LEXER_MAX_LITERAL_LOCAL_BUFFER_SIZE,
    LEXER_MAX_LITERAL_LOCAL_BUFFER_SIZE + 1 }

LongLiterals ==
  { Letters(n, "a") : n \in LongLengths }
    \cup { Bytes(<<"\\", "u", "0", "0", "6", "1">>) \o Letters(n - 1, "a") : n \in LongLengths }
    \cup { Bytes(<<"'">>) \o Letters(n, "a") \o Bytes(<<"'">>) : n \in LongLengths }
    \cup { Bytes(<<"'", "\\", "n">>) \o Letters(n - 1, "a") \o Bytes(<<"'">>) :
             n \in LongLengths }

\* As many different identifiers as the pool holds.
PoolFillers ==
  LET RECURSIVE Fill(_)
      Fill(i) == IF i > PARSER_MAXIMUM_NUMBER_OF_LITERALS THEN <<>>
                 ELSE <<Ord("a") + i, Ord(" ")>> \o Fill(i + 1)
  IN Fill(1)

BufferSources == { lead \o literal : lead \in {<<>>, PoolFillers}, literal \in LongLiterals }

InitBuffer == InitWith(BufferSources, {<<0>>}, {{}})

NextBuffer ==
  \/ NextToken
  \/ ConstructLiteral

SpecBuffer == InitBuffer /\ [][NextBuffer]_vars

BufferOutstanding == context.allocated_buffer_p # "NULL"

\* lexer_construct_literal_object has raised an error.
ConstructionFailed == result.op = "lexer_construct_literal_object" /\ Failed(context)

RegexpSymbols ==
  { <<>>, Bytes(<<"a">>), Bytes(<<"/">>), Bytes(<<"[">>), Bytes(<<"]">>),
    <<Backslash>>, <<LEXER_NEWLINE_LF>>, <<LEXER_NEWLINE_LS_PS_BYTE_1, 128, 168>> }

RegexpBodySources ==
  { Bytes(<<"/">>) \o Concatenation(symbols) : symbols \in [1..MaxRegexpBody -> RegexpSymbols] }

RegexpExamples ==
  { Bytes(<<"/", "[", "\\", "/", "]", "\\", "/", "/", "g">>),
    Bytes(<<"/", "[", "[", "/", "]", "a", "/", "i">>),
    Bytes(<<"/", "=", "a", "/", "g">>),
    Bytes(<<"/", "=", "[", "/", "]", "/">>),
    Bytes(<<"/", "=", "\\">>),
    Bytes(<<"/", "a">>) \o <<LEXER_NEWLINE_CR>> \o Bytes(<<"/">>),
    Bytes(<<"/", "a">>) \o <<LEXER_NEWLINE_LS_PS_BYTE_1, 128, 169>> \o Bytes(<<"/">>),
    Bytes(<<"/", "a">>) \o <<LEXER_NEWLINE_LS_PS_BYTE_1, 128, 167>> \o Bytes(<<"/">>),
    Bytes(<<"/", "\\">>) \o <<LEXER_NEWLINE_LS_PS_BYTE_1, 128, 168>> \o Bytes(<<"/">>),
    Bytes(<<"/", "\\">>) \o <<195, 169>> \o Bytes(<<"/">>),
    Bytes(<<"/", "\\">>) \o <<LEXER_TAB>> \o Bytes(<<"/", "m">>) }

RegexpFlagSymbols ==
  { <<>>, Bytes(<<"g">>), Bytes(<<"i">>), Bytes(<<"m">>), Bytes(<<"x">>), Bytes(<<" ">>) }

RegexpFlagSources ==
  { lead \o Bytes(<<"/", "a", "/">>) \o Concatenation(flags) :
      lead \in {<<>>, Bytes(<<"/", "b", "/", " ">>)}, flags \in [1..MaxRegexpFlags -> RegexpFlagSymbols] }

InitRegexp ==
  \/ InitWith(RegexpBodySources, {<<0>>}, {{}})
  \/ InitWith(RegexpExamples, {<<0>>}, {{}})
  \/ InitWith(RegexpFlagSources, {<<0>>}, {{}})

NextRegexp ==
  \/ NextToken
  \/ ConstructRegexp

SpecRegexp == InitRegexp /\ [][NextRegexp]_vars

\* lexer_construct_regexp_object is called in this step.
RegexpConstructed == result'.op = "lexer_construct_regexp_object"

\* The byte at i is escaped in the body that starts at start: the number of
\* backslashes that stand directly before it is odd.
RegexpEscaped(start, i) ==
  Cardinality({ j \in start..(i - 1) : \A k \in j..(i - 1) : Byte(k) = Backslash }) % 2 = 1

RegexpBracket(start, i, bracket) == Byte(i) = Ord(bracket) /\ ~RegexpEscaped(start, i)

\* The byte at i is in a class: a left bracket before it is not followed by
\* a right bracket before i.
RegexpInClass(start, i) ==
  \E j \in start..(i - 1) :
    /\ RegexpBracket(start, j, "[")
    /\ \A k \in (j + 1)..(i - 1) : ~RegexpBracket(start, k, "]")

RegexpClosingSlash(start, i) ==
  /\ Byte(i) = Ord("/")
  /\ ~RegexpEscaped(start, i)
  /\ ~RegexpInClass(start, i)

RawLineTerminator(i) ==
  \/ Byte(i) \in {LEXER_NEWLINE_CR, LEXER_NEWLINE_LF}
  \/ Byte(i) = 226 /\ Byte(i + 1) = 128 /\ Byte(i + 2) \in {168, 169}

RegexpStops(start) ==
  { i \in start..(source_end_p - 1) : RegexpClosingSlash(start, i) \/ RawLineTerminator(i) }

Smallest(set) == CHOOSE i \in set : \A j \in set : i <= j

RegexpStop(start) == Smallest(RegexpStops(start))

\* The body that starts at start is closed by a slash.
RegexpClosed(start) ==
  RegexpStops(start) # {} /\ RegexpClosingSlash(start, RegexpStop(start))

RegexpBodyErrors == {"PARSER_ERR_UNTERMINATED_REGEXP", "PARSER_ERR_NEWLINE_NOT_ALLOWED"}

IsRegexpFlag(byte) == byte \in {Ord("g"), Ord("i"), Ord("m")}

\* The regular expression has been scanned to its end: it is stored, or it
\* would be had the pattern been accepted.
RegexpScanned(c) == c.error \in {"none", "PARSER_ERR_INVALID_REGEXP"}

(***************************************************************************)
(* C26  lexer_construct_regexp_object ends the body of the regular         *)
(* expression at the first slash that is neither in a class [...] nor      *)
(* escaped by a backslash: what it scans after that slash are flags.  When *)
(* the end of the input comes first, also directly after a backslash, it   *)
(* raises PARSER_ERR_UNTERMINATED_REGEXP, and when a raw line terminator   *)
(* comes first it raises PARSER_ERR_NEWLINE_NOT_ALLOWED.                   *)
(***************************************************************************)
C26_RegexpBodyEnd ==
  [][RegexpConstructed =>
       IF RegexpStops(context.source_p) = {}
         THEN context'.error = "PARSER_ERR_UNTERMINATED_REGEXP"
       ELSE IF RawLineTerminator(RegexpStop(context.source_p))
         THEN context'.error = "PARSER_ERR_NEWLINE_NOT_ALLOWED"
       ELSE /\ context'.error \notin RegexpBodyErrors
            /\ RegexpScanned(context') =>
                 /\ context'.source_p > RegexpStop(context.source_p)
                 /\ \A i \in (RegexpStop(context.source_p) + 1)..(context'.source_p - 1) :
                      IsRegexpFlag(Byte(i))]_vars

\* /[/]/ is one regular expression of five bytes.
C26_Witness ==
  /\ source = Bytes(<<"/", "[", "/", "]", "/">>)
  /\ result.op = "lexer_construct_regexp_object"
  /\ ~Failed(context)
  /\ context.source_p = 5
  /\ context.token.type = "LEXER_LITERAL"
  /\ context.token.lit_location.type = "LEXER_REGEXP_LITERAL"
  /\ Len(context.literal_pool) = 1
  /\ context.literal_pool[1].length = 5

\* The end of the run of flags that starts at p.
RegexpFlagsEnd(p) ==
  Smallest({ q \in p..source_end_p : q = source_end_p \/ ~IsRegexpFlag(Byte(q)) })

RegexpFlagRepeated(p) ==
  \E i, j \in p..(RegexpFlagsEnd(p) - 1) : i # j /\ Byte(i) = Byte(j)

\* One column for each byte between p and q.
OneColumnEach(p, q) == \A i \in p..(q - 1) : Byte(i) < 128 /\ Byte(i) # LEXER_TAB

\* What a call in parse-only mode must leave alone.
BesidesRegexpCursor(c) == [c EXCEPT !.source_p = 0, !.column = 0]

RegexpFlagsPrescribed(start, flags_p, parse_only) ==
  IF RegexpFlagRepeated(flags_p)
    THEN context'.error = "PARSER_ERR_DUPLICATED_REGEXP_FLAG"
  ELSE IF RegexpFlagsEnd(flags_p) < source_end_p /\ util_is_identifier_part(RegexpFlagsEnd(flags_p))
    THEN context'.error = "PARSER_ERR_UNKNOWN_REGEXP_FLAG"
  ELSE /\ RegexpScanned(context')
       /\ context'.source_p = RegexpFlagsEnd(flags_p)
       /\ OneColumnEach(start, RegexpFlagsEnd(flags_p))
            => context'.column = context.column + (RegexpFlagsEnd(flags_p) - start)
       /\ parse_only =>
            /\ ~Failed(context')
            /\ context'.source_p > context.source_p
            /\ context'.column > context.column
            /\ context'.literal_pool = context.literal_pool
            /\ context'.literal_count = context.literal_count
            /\ context'.token.type = context.token.type
            /\ BesidesRegexpCursor(context') = BesidesRegexpCursor(context)
       /\ ~parse_only /\ ~Failed(context') =>
            /\ Len(context'.literal_pool) = Len(context.literal_pool) + 1
            /\ context'.literal_count = context.literal_count + 1
            /\ context'.token.type = "LEXER_LITERAL"

(***************************************************************************)
(* C27  After the slash that closes the body,                              *)
(* lexer_construct_regexp_object accepts the flags g, i and m in any       *)
(* order, each at most once: a flag that is repeated raises                *)
(* PARSER_ERR_DUPLICATED_REGEXP_FLAG, any other byte of an identifier      *)
(* directly after the flags raises PARSER_ERR_UNKNOWN_REGEXP_FLAG, and     *)
(* otherwise the cursor is behind the flags and the column has advanced    *)
(* with it.  In parse-only mode nothing else changes: the literal pool,    *)
(* literal_count and the token type are those before the call.             *)
(***************************************************************************)
C27_RegexpFlags ==
  [][RegexpConstructed /\ RegexpClosed(context.source_p) =>
       RegexpFlagsPrescribed(context.source_p, RegexpStop(context.source_p) + 1,
                             result'.parse_only)]_vars

\* /a/gim has been scanned in parse-only mode after /b/ was stored: the
\* cursor is at the end, the pool holds /b/ alone and the token is still the
\* slash.
C27_Witness ==
  /\ source = Bytes(<<"/", "b", "/", " ", "/", "a", "/", "g", "i", "m">>)
  /\ result.op = "lexer_construct_regexp_object"
  /\ result.parse_only
  /\ ~Failed(context)
  /\ context.source_p = 10
  /\ context.column = 11
  /\ context.token.type = "LEXER_DIVIDE"
  /\ Len(context.literal_pool) = 1
  /\ context.literal_count = 1

(***************************************************************************)
(* The opcodes of the compact byte code.  An opcode is its position in     *)
(* CBC_OPCODE_LIST or CBC_EXT_OPCODE_LIST, counted from 0; an entry of a   *)
(* list has the name, the flags and the stack change that the list gives   *)
(* to CBC_OPCODE.                                                          *)
(***************************************************************************)
RECURSIVE BitAnd(_, _)
BitAnd(a, b) ==
  IF a = 0 \/ b = 0 THEN 0 ELSE (a % 2) * (b % 2) + 2 * BitAnd(a \div 2, b \div 2)

RECURSIVE BitOr(_, _)
BitOr(a, b) ==
  IF a = 0 THEN b ELSE IF b = 0 THEN a
  ELSE (IF a % 2 = 1 \/ b % 2 = 1 THEN 1 ELSE 0) + 2 * BitOr(a \div 2, b \div 2)

CBC_STACK_ADJUST_BASE == 4
CBC_STACK_ADJUST_SHIFT == 5

\* The value read with the base 3.
CBC_STACK_ADJUST_VALUE_Base3(value) == (value \div (2 ^ CBC_STACK_ADJUST_SHIFT)) - 3

CBC_STACK_ADJUST_VALUE(value) ==
  (value \div (2 ^ CBC_STACK_ADJUST_SHIFT)) - CBC_STACK_ADJUST_BASE

CBC_NO_FLAG == 0
CBC_HAS_LITERAL_ARG == 1
CBC_HAS_LITERAL_ARG2 == 2
CBC_HAS_BYTE_ARG == 4
CBC_HAS_BRANCH_ARG == 8
CBC_FORWARD_BRANCH_ARG == 16
CBC_POP_STACK_BYTE_ARG == 16
CBC_HAS_POP_STACK_BYTE_ARG == BitOr(CBC_HAS_BYTE_ARG, CBC_POP_STACK_BYTE_ARG)

CBC_OPCODE(name, flags, stack) == <<[name |-> name, flags |-> flags, stack |-> stack]>>

CBC_UNARY_OPERATION(name) ==
  CBC_OPCODE(name, CBC_NO_FLAG, 0)
    \o CBC_OPCODE(name \o "_LITERAL", CBC_HAS_LITERAL_ARG, 1)

CBC_BINARY_OPERATION(name) ==
  CBC_OPCODE(name, CBC_NO_FLAG, -1)
    \o CBC_OPCODE(name \o "_RIGHT_LITERAL", CBC_HAS_LITERAL_ARG, 0)
    \o CBC_OPCODE(name \o "_TWO_LITERALS", BitOr(CBC_HAS_LITERAL_ARG, CBC_HAS_LITERAL_ARG2), 1)

CBC_UNARY_LVALUE_OPERATION(name) ==
  CBC_OPCODE(name, CBC_NO_FLAG, -2)
    \o CBC_OPCODE(name \o "_PUSH_RESULT", CBC_NO_FLAG, -1)
    \o CBC_OPCODE(name \o "_BLOCK", CBC_NO_FLAG, -2)
    \o CBC_OPCODE(name \o "_IDENT", CBC_HAS_LITERAL_ARG, 0)
    \o CBC_OPCODE(name \o "_IDENT_PUSH_RESULT", CBC_HAS_LITERAL_ARG, 1)
    \o CBC_OPCODE(name \o "_IDENT_BLOCK", CBC_HAS_LITERAL_ARG, 0)

CBC_FORWARD_BRANCH(name, stack) ==
  CBC_OPCODE(name, BitOr(CBC_HAS_BRANCH_ARG, CBC_FORWARD_BRANCH_ARG), stack)
    \o CBC_OPCODE(name \o "_2", BitOr(CBC_HAS_BRANCH_ARG, CBC_FORWARD_BRANCH_ARG), stack)
    \o CBC_OPCODE(name \o "_3", BitOr(CBC_HAS_BRANCH_ARG, CBC_FORWARD_BRANCH_ARG), stack)

\* The three backward branches declared as forward branches.
CBC_BACKWARD_BRANCH_AsForward(name, stack) == CBC_FORWARD_BRANCH(name, stack)

CBC_BACKWARD_BRANCH(name, stack) ==
  CBC_OPCODE(name, CBC_HAS_BRANCH_ARG, stack)
    \o CBC_OPCODE(name \o "_2", CBC_HAS_BRANCH_ARG, stack)
    \o CBC_OPCODE(name \o "_3", CBC_HAS_BRANCH_ARG, stack)

\* The length read from the lower three bits.
CBC_BRANCH_OFFSET_LENGTH_ThreeBits(opcode) == BitAnd(opcode, 7)

CBC_BRANCH_OFFSET_LENGTH(opcode) == BitAnd(opcode, 3)

CBC_BRANCH_IS_FORWARD(flags) == BitAnd(flags, CBC_FORWARD_BRANCH_ARG)

PARSER_FOR_IN_CONTEXT_STACK_ALLOCATION == 3
PARSER_WITH_CONTEXT_STACK_ALLOCATION == 1
PARSER_SUPER_CLASS_CONTEXT_STACK_ALLOCATION == 1
PARSER_TRY_CONTEXT_STACK_ALLOCATION == 3

CBC_OPCODE_LIST ==
  CBC_OPCODE("CBC_EXT_OPCODE", CBC_NO_FLAG, 0)
    \o CBC_FORWARD_BRANCH("CBC_JUMP_FORWARD", 0)
    \o CBC_OPCODE("CBC_POP", CBC_NO_FLAG, -1)
    \o CBC_BACKWARD_BRANCH("CBC_JUMP_BACKWARD", 0)
    \o CBC_OPCODE("CBC_POP_BLOCK", CBC_NO_FLAG, -1)
    \o CBC_FORWARD_BRANCH("CBC_BRANCH_IF_TRUE_FORWARD", -1)
    \o CBC_OPCODE("CBC_THROW", CBC_NO_FLAG, -1)
    \o CBC_BACKWARD_BRANCH("CBC_BRANCH_IF_TRUE_BACKWARD", -1)
    \o CBC_OPCODE("CBC_CONTEXT_END", CBC_NO_FLAG, 0)
    \o CBC_FORWARD_BRANCH("CBC_BRANCH_IF_FALSE_FORWARD", -1)
    \o CBC_OPCODE("CBC_CREATE_OBJECT", CBC_NO_FLAG, 1)
    \o CBC_BACKWARD_BRANCH("CBC_BRANCH_IF_FALSE_BACKWARD", -1)
    \o CBC_OPCODE("CBC_SET_PROPERTY", CBC_HAS_LITERAL_ARG, -1)
    \o CBC_FORWARD_BRANCH("CBC_JUMP_FORWARD_EXIT_CONTEXT", 0)
    \o CBC_OPCODE("CBC_CREATE_ARRAY", CBC_NO_FLAG, 1)
    \o CBC_FORWARD_BRANCH("CBC_BRANCH_IF_LOGICAL_TRUE", -1)
    \o CBC_OPCODE("CBC_ARRAY_APPEND", CBC_HAS_POP_STACK_BYTE_ARG, 0)
    \o CBC_FORWARD_BRANCH("CBC_BRANCH_IF_LOGICAL_FALSE", -1)
    \o CBC_OPCODE("CBC_PUSH_ELISION", CBC_NO_FLAG, 1)
    \o CBC_FORWARD_BRANCH("CBC_BRANCH_IF_STRICT_EQUAL", -1)
    \o CBC_OPCODE("CBC_PUSH_LITERAL", CBC_HAS_LITERAL_ARG, 1)
    \o CBC_OPCODE("CBC_PUSH_TWO_LITERALS", BitOr(CBC_HAS_LITERAL_ARG, CBC_HAS_LITERAL_ARG2), 2)
    \o CBC_OPCODE("CBC_PUSH_THREE_LITERALS", CBC_HAS_LITERAL_ARG2, 3)
    \o CBC_OPCODE("CBC_PUSH_UNDEFINED", CBC_NO_FLAG, 1)
    \o CBC_OPCODE("CBC_PUSH_TRUE", CBC_NO_FLAG, 1)
    \o CBC_OPCODE("CBC_PUSH_FALSE", CBC_NO_FLAG, 1)
    \o CBC_OPCODE("CBC_PUSH_NULL", CBC_NO_FLAG, 1)
    \o CBC_OPCODE("CBC_PUSH_THIS", CBC_NO_FLAG, 1)
    \o CBC_OPCODE("CBC_PUSH_THIS_LITERAL", CBC_HAS_LITERAL_ARG, 2)
    \o CBC_OPCODE("CBC_PUSH_NUMBER_0", CBC_NO_FLAG, 1)
    \o CBC_OPCODE("CBC_PUSH_NUMBER_POS_BYTE", CBC_HAS_BYTE_ARG, 1)
    \o CBC_OPCODE("CBC_PUSH_NUMBER_NEG_BYTE", CBC_HAS_BYTE_ARG, 1)
    \o CBC_OPCODE("CBC_PUSH_PROP", CBC_NO_FLAG, -1)
    \o CBC_OPCODE("CBC_PUSH_PROP_LITERAL", CBC_HAS_LITERAL_ARG, 0)
    \o CBC_OPCODE("CBC_PUSH_PROP_LITERAL_LITERAL", BitOr(CBC_HAS_LITERAL_ARG, CBC_HAS_LITERAL_ARG2), 1)
    \o CBC_OPCODE("CBC_PUSH_PROP_THIS_LITERAL", CBC_HAS_LITERAL_ARG, 1)
    \o CBC_OPCODE("CBC_PUSH_IDENT_REFERENCE", CBC_HAS_LITERAL_ARG, 3)
    \o CBC_OPCODE("CBC_PUSH_PROP_REFERENCE", CBC_NO_FLAG, 1)
    \o CBC_OPCODE("CBC_PUSH_PROP_LITERAL_REFERENCE", CBC_HAS_LITERAL_ARG, 2)
    \o CBC_OPCODE("CBC_PUSH_PROP_LITERAL_LITERAL_REFERENCE", BitOr(CBC_HAS_LITERAL_ARG, CBC_HAS_LITERAL_ARG2), 3)
    \o CBC_OPCODE("CBC_PUSH_PROP_THIS_LITERAL_REFERENCE", CBC_HAS_LITERAL_ARG, 3)
    \o CBC_OPCODE("CBC_NEW", CBC_HAS_POP_STACK_BYTE_ARG, 0)
    \o CBC_OPCODE("CBC_NEW0", CBC_NO_FLAG, 0)
    \o CBC_OPCODE("CBC_NEW1", CBC_NO_FLAG, -1)
    \o CBC_OPCODE("CBC_EVAL", CBC_NO_FLAG, 0)
    \o CBC_OPCODE("CBC_DEFINE_VARS", CBC_HAS_LITERAL_ARG, 0)
    \o CBC_OPCODE("CBC_INITIALIZE_VAR", BitOr(CBC_HAS_LITERAL_ARG, CBC_HAS_LITERAL_ARG2), 0)
    \o CBC_OPCODE("CBC_INITIALIZE_VARS", BitOr(CBC_HAS_LITERAL_ARG, CBC_HAS_LITERAL_ARG2), 0)
    \o CBC_OPCODE("CBC_RETURN", CBC_NO_FLAG, -1)
    \o CBC_OPCODE("CBC_RETURN_WITH_BLOCK", CBC_NO_FLAG, 0)
    \o CBC_OPCODE("CBC_RETURN_WITH_LITERAL", CBC_HAS_LITERAL_ARG, 0)
    \o CBC_OPCODE("CBC_SET_LITERAL_PROPERTY", BitOr(CBC_HAS_LITERAL_ARG, CBC_HAS_LITERAL_ARG2), 0)
    \o CBC_UNARY_OPERATION("CBC_PLUS")
    \o CBC_UNARY_OPERATION("CBC_NEGATE")
    \o CBC_UNARY_OPERATION("CBC_LOGICAL_NOT")
    \o CBC_UNARY_OPERATION("CBC_BIT_NOT")
    \o CBC_UNARY_OPERATION("CBC_VOID")
    \o CBC_OPCODE("CBC_TYPEOF", CBC_NO_FLAG, 0)
    \o CBC_OPCODE("CBC_TYPEOF_IDENT", CBC_HAS_LITERAL_ARG, 1)
    \o CBC_BINARY_OPERATION("CBC_BIT_OR")
    \o CBC_BINARY_OPERATION("CBC_BIT_XOR")
    \o CBC_BINARY_OPERATION("CBC_BIT_AND")
    \o CBC_BINARY_OPERATION("CBC_EQUAL")
    \o CBC_BINARY_OPERATION("CBC_NOT_EQUAL")
    \o CBC_BINARY_OPERATION("CBC_STRICT_EQUAL")
    \o CBC_BINARY_OPERATION("CBC_STRICT_NOT_EQUAL")
    \o CBC_BINARY_OPERATION("CBC_LESS")
    \o CBC_BINARY_OPERATION("CBC_GREATER")
    \o CBC_BINARY_OPERATION("CBC_LESS_EQUAL")
    \o CBC_BINARY_OPERATION("CBC_GREATER_EQUAL")
    \o CBC_BINARY_OPERATION("CBC_IN")
    \o CBC_BINARY_OPERATION("CBC_INSTANCEOF")
    \o CBC_BINARY_OPERATION("CBC_LEFT_SHIFT")
    \o CBC_BINARY_OPERATION("CBC_RIGHT_SHIFT")
    \o CBC_BINARY_OPERATION("CBC_UNS_RIGHT_SHIFT")
    \o CBC_BINARY_OPERATION("CBC_ADD")
    \o CBC_BINARY_OPERATION("CBC_SUBTRACT")
    \o CBC_BINARY_OPERATION("CBC_MULTIPLY")
    \o CBC_BINARY_OPERATION("CBC_DIVIDE")
    \o CBC_BINARY_OPERATION("CBC_MODULO")
    \o CBC_OPCODE("CBC_DELETE_PUSH_RESULT", CBC_NO_FLAG, -1)
    \o CBC_OPCODE("CBC_DELETE_IDENT_PUSH_RESULT", CBC_HAS_LITERAL_ARG, 1)
    \o CBC_UNARY_LVALUE_OPERATION("CBC_PRE_INCR")
    \o CBC_UNARY_LVALUE_OPERATION("CBC_PRE_DECR")
    \o CBC_UNARY_LVALUE_OPERATION("CBC_POST_INCR")
    \o CBC_UNARY_LVALUE_OPERATION("CBC_POST_DECR")
    \o CBC_OPCODE("CBC_CALL", CBC_HAS_POP_STACK_BYTE_ARG, -1)
    \o CBC_OPCODE("CBC_CALL_PUSH_RESULT", CBC_HAS_POP_STACK_BYTE_ARG, 0)
    \o CBC_OPCODE("CBC_CALL_BLOCK", CBC_HAS_POP_STACK_BYTE_ARG, -1)
    \o CBC_OPCODE("CBC_CALL_PROP", CBC_HAS_POP_STACK_BYTE_ARG, -3)
    \o CBC_OPCODE("CBC_CALL_PROP_PUSH_RESULT", CBC_HAS_POP_STACK_BYTE_ARG, -2)
    \o CBC_OPCODE("CBC_CALL_PROP_BLOCK", CBC_HAS_POP_STACK_BYTE_ARG, -3)
    \o CBC_OPCODE("CBC_CALL0", CBC_NO_FLAG, -1)
    \o CBC_OPCODE("CBC_CALL0_PUSH_RESULT", CBC_NO_FLAG, 0)
    \o CBC_OPCODE("CBC_CALL0_BLOCK", CBC_NO_FLAG, -1)
    \o CBC_OPCODE("CBC_CALL0_PROP", CBC_NO_FLAG, -3)
    \o CBC_OPCODE("CBC_CALL0_PROP_PUSH_RESULT", CBC_NO_FLAG, -2)
    \o CBC_OPCODE("CBC_CALL0_PROP_BLOCK", CBC_NO_FLAG, -3)
    \o CBC_OPCODE("CBC_CALL1", CBC_NO_FLAG, -2)
    \o CBC_OPCODE("CBC_CALL1_PUSH_RESULT", CBC_NO_FLAG, -1)
    \o CBC_OPCODE("CBC_CALL1_BLOCK", CBC_NO_FLAG, -2)
    \o CBC_OPCODE("CBC_CALL1_PROP", CBC_NO_FLAG, -4)
    \o CBC_OPCODE("CBC_CALL1_PROP_PUSH_RESULT", CBC_NO_FLAG, -3)
    \o CBC_OPCODE("CBC_CALL1_PROP_BLOCK", CBC_NO_FLAG, -4)
    \o CBC_OPCODE("CBC_CALL2", CBC_NO_FLAG, -3)
    \o CBC_OPCODE("CBC_CALL2_PUSH_RESULT", CBC_NO_FLAG, -2)
    \o CBC_OPCODE("CBC_CALL2_BLOCK", CBC_NO_FLAG, -3)
    \o CBC_OPCODE("CBC_CALL2_PROP", CBC_NO_FLAG, -4)
    \o CBC_OPCODE("CBC_CALL2_PROP_PUSH_RESULT", CBC_NO_FLAG, -3)
    \o CBC_OPCODE("CBC_CALL2_PROP_BLOCK", CBC_NO_FLAG, -4)
    \o CBC_OPCODE("CBC_ASSIGN", CBC_NO_FLAG, -3)
    \o CBC_OPCODE("CBC_ASSIGN_PUSH_RESULT", CBC_NO_FLAG, -2)
    \o CBC_OPCODE("CBC_ASSIGN_BLOCK", CBC_NO_FLAG, -3)
    \o CBC_OPCODE("CBC_ASSIGN_SET_IDENT", CBC_HAS_LITERAL_ARG, -1)
    \o CBC_OPCODE("CBC_ASSIGN_SET_IDENT_PUSH_RESULT", CBC_HAS_LITERAL_ARG, 0)
    \o CBC_OPCODE("CBC_ASSIGN_SET_IDENT_BLOCK", CBC_HAS_LITERAL_ARG, -1)
    \o CBC_OPCODE("CBC_ASSIGN_LITERAL_SET_IDENT", BitOr(CBC_HAS_LITERAL_ARG, CBC_HAS_LITERAL_ARG2), 0)
    \o CBC_OPCODE("CBC_ASSIGN_LITERAL_SET_IDENT_PUSH_RESULT", BitOr(CBC_HAS_LITERAL_ARG, CBC_HAS_LITERAL_ARG2), 1)
    \o CBC_OPCODE("CBC_ASSIGN_LITERAL_SET_IDENT_BLOCK", BitOr(CBC_HAS_LITERAL_ARG, CBC_HAS_LITERAL_ARG2), 0)
    \o CBC_OPCODE("CBC_ASSIGN_PROP_LITERAL", CBC_HAS_LITERAL_ARG, -2)
    \o CBC_OPCODE("CBC_ASSIGN_PROP_LITERAL_PUSH_RESULT", CBC_HAS_LITERAL_ARG, -1)
    \o CBC_OPCODE("CBC_ASSIGN_PROP_LITERAL_BLOCK", CBC_HAS_LITERAL_ARG, -2)
    \o CBC_OPCODE("CBC_ASSIGN_PROP_THIS_LITERAL", CBC_HAS_LITERAL_ARG, -1)
    \o CBC_OPCODE("CBC_ASSIGN_PROP_THIS_LITERAL_PUSH_RESULT", CBC_HAS_LITERAL_ARG, 0)
    \o CBC_OPCODE("CBC_ASSIGN_PROP_THIS_LITERAL_BLOCK", CBC_HAS_LITERAL_ARG, -1)
    \o CBC_OPCODE("CBC_END", CBC_NO_FLAG, 0)

CBC_EXT_OPCODE_LIST ==
  CBC_OPCODE("CBC_EXT_NOP", CBC_NO_FLAG, 0)
    \o CBC_FORWARD_BRANCH("CBC_EXT_WITH_CREATE_CONTEXT", -1 + PARSER_WITH_CONTEXT_STACK_ALLOCATION)
    \o CBC_OPCODE("CBC_EXT_FOR_IN_GET_NEXT", CBC_NO_FLAG, 1)
    \o CBC_FORWARD_BRANCH("CBC_EXT_FOR_IN_CREATE_CONTEXT", -1 + PARSER_FOR_IN_CONTEXT_STACK_ALLOCATION)
    \o CBC_OPCODE("CBC_EXT_SET_GETTER", BitOr(CBC_HAS_LITERAL_ARG, CBC_HAS_LITERAL_ARG2), 0)
    \o CBC_BACKWARD_BRANCH("CBC_EXT_BRANCH_IF_FOR_IN_HAS_NEXT", 0)
    \o CBC_OPCODE("CBC_EXT_SET_SETTER", BitOr(CBC_HAS_LITERAL_ARG, CBC_HAS_LITERAL_ARG2), 0)
    \o CBC_FORWARD_BRANCH("CBC_EXT_TRY_CREATE_CONTEXT", PARSER_TRY_CONTEXT_STACK_ALLOCATION)
    \o CBC_OPCODE("CBC_EXT_THROW_REFERENCE_ERROR", CBC_NO_FLAG, 1)
    \o CBC_FORWARD_BRANCH("CBC_EXT_CATCH", 1)
    \o CBC_OPCODE("CBC_EXT_PUSH_UNDEFINED_BASE", CBC_NO_FLAG, 1)
    \o CBC_FORWARD_BRANCH("CBC_EXT_FINALLY", 0)
    \o CBC_OPCODE("CBC_EXT_CLASS_EXPR_CONTEXT_END", CBC_NO_FLAG, 0)
    \o CBC_FORWARD_BRANCH("CBC_EXT_SUPER_CLASS_CREATE_CONTEXT", -1 + PARSER_SUPER_CLASS_CONTEXT_STACK_ALLOCATION)
    \o CBC_OPCODE("CBC_EXT_DEBUGGER", CBC_NO_FLAG, 0)
    \o CBC_OPCODE("CBC_EXT_PUSH_NAMED_FUNC_EXPRESSION", BitOr(CBC_HAS_LITERAL_ARG, CBC_HAS_LITERAL_ARG2), 1)
    \o CBC_OPCODE("CBC_EXT_PUSH_LITERAL_PUSH_NUMBER_0", CBC_HAS_LITERAL_ARG, 2)
    \o CBC_OPCODE("CBC_EXT_PUSH_LITERAL_PUSH_NUMBER_POS_BYTE", BitOr(CBC_HAS_LITERAL_ARG, CBC_HAS_BYTE_ARG), 2)
    \o CBC_OPCODE("CBC_EXT_PUSH_LITERAL_PUSH_NUMBER_NEG_BYTE", BitOr(CBC_HAS_LITERAL_ARG, CBC_HAS_BYTE_ARG), 2)
    \o CBC_OPCODE("CBC_EXT_SET_COMPUTED_PROPERTY", CBC_NO_FLAG, -2)
    \o CBC_OPCODE("CBC_EXT_SET_COMPUTED_PROPERTY_LITERAL", CBC_HAS_LITERAL_ARG, -1)
    \o CBC_OPCODE("CBC_EXT_SET_COMPUTED_GETTER", CBC_HAS_LITERAL_ARG, -1)
    \o CBC_OPCODE("CBC_EXT_SET_COMPUTED_SETTER", CBC_HAS_LITERAL_ARG, -1)
    \o CBC_OPCODE("CBC_EXT_SET_STATIC_PROPERTY_LITERAL", BitOr(CBC_HAS_LITERAL_ARG, CBC_HAS_LITERAL_ARG2), 0)
    \o CBC_OPCODE("CBC_EXT_SET_STATIC_COMPUTED_PROPERTY_LITERAL", CBC_HAS_LITERAL_ARG, -1)
    \o CBC_OPCODE("CBC_EXT_SET_STATIC_GETTER", BitOr(CBC_HAS_LITERAL_ARG, CBC_HAS_LITERAL_ARG2), 0)
    \o CBC_OPCODE("CBC_EXT_SET_STATIC_SETTER", BitOr(CBC_HAS_LITERAL_ARG, CBC_HAS_LITERAL_ARG2), 0)
    \o CBC_OPCODE("CBC_EXT_SET_STATIC_COMPUTED_GETTER", CBC_HAS_LITERAL_ARG, -1)
    \o CBC_OPCODE("CBC_EXT_SET_STATIC_COMPUTED_SETTER", CBC_HAS_LITERAL_ARG, -1)
    \o CBC_OPCODE("CBC_EXT_RESOLVE_BASE", CBC_NO_FLAG, 0)
    \o CBC_OPCODE("CBC_EXT_INHERIT_AND_SET_CONSTRUCTOR", CBC_NO_FLAG, 0)
    \o CBC_OPCODE("CBC_EXT_PUSH_CLASS_CONSTRUCTOR", CBC_NO_FLAG, 1)
    \o CBC_OPCODE("CBC_EXT_IMPLICIT_CONSTRUCTOR_CALL", CBC_NO_FLAG, 0)
    \o CBC_OPCODE("CBC_EXT_SET_CLASS_LITERAL", CBC_HAS_LITERAL_ARG, 0)
    \o CBC_OPCODE("CBC_EXT_CLASS_EVAL", CBC_HAS_BYTE_ARG, 0)
    \o CBC_OPCODE("CBC_EXT_SUPER_CALL", CBC_HAS_POP_STACK_BYTE_ARG, -1)
    \o CBC_OPCODE("CBC_EXT_SUPER_CALL_PUSH_RESULT", CBC_HAS_POP_STACK_BYTE_ARG, 0)
    \o CBC_OPCODE("CBC_EXT_SUPER_CALL_BLOCK", CBC_HAS_POP_STACK_BYTE_ARG, -1)
    \o CBC_OPCODE("CBC_EXT_PUSH_CONSTRUCTOR_SUPER", CBC_NO_FLAG, 1)
    \o CBC_OPCODE("CBC_EXT_PUSH_CONSTRUCTOR_SUPER_PROP", CBC_NO_FLAG, 1)
    \o CBC_OPCODE("CBC_EXT_PUSH_SUPER", CBC_NO_FLAG, 1)
    \o CBC_OPCODE("CBC_EXT_PUSH_STATIC_SUPER", CBC_NO_FLAG, 1)
    \o CBC_OPCODE("CBC_EXT_PUSH_CONSTRUCTOR_THIS", CBC_NO_FLAG, 1)
    \o CBC_OPCODE("CBC_EXT_SUPER_PROP_CALL", CBC_NO_FLAG, 0)
    \o CBC_OPCODE("CBC_EXT_SUPER_PROP_ASSIGN", CBC_NO_FLAG, 0)
    \o CBC_OPCODE("CBC_EXT_CONSTRUCTOR_RETURN", CBC_NO_FLAG, -1)
    \o CBC_OPCODE("CBC_EXT_END", CBC_NO_FLAG, 0)

\* The tables cbc_flags and cbc_ext_flags hold one byte for each opcode: the
\* flags in the lower five bits and the stack change, increased by
\* CBC_STACK_ADJUST_BASE, in the upper three.
PackedFlags(list) ==
  [i \in 1..Len(list) |->
     BitOr(list[i].flags,
           (list[i].stack + CBC_STACK_ADJUST_BASE) * (2 ^ CBC_STACK_ADJUST_SHIFT)) % 256]

cbc_flags == PackedFlags(CBC_OPCODE_LIST)

cbc_ext_flags == PackedFlags(CBC_EXT_OPCODE_LIST)

OpcodeList(ext) == IF ext THEN CBC_EXT_OPCODE_LIST ELSE CBC_OPCODE_LIST

OpcodeFlags(ext, opcode) == IF ext THEN cbc_ext_flags[opcode + 1] ELSE cbc_flags[opcode + 1]

\* What the flags of an opcode tell: the stack change, and for an opcode
\* with a branch argument the length of the offset and the direction.
OpcodeRecord(ext, opcode, flags) ==
  [op |-> "cbc_flags", ext |-> ext, opcode |-> opcode, flags |-> flags,
   stack |-> CBC_STACK_ADJUST_VALUE(flags),
   has_branch |-> BitAnd(flags, CBC_HAS_BRANCH_ARG) # 0,
   offset_length |-> CBC_BRANCH_OFFSET_LENGTH(opcode),
   is_forward |-> CBC_BRANCH_IS_FORWARD(flags) # 0]

\* The flags of an opcode of one of the two lists are read.
ReadOpcodeFlags ==
  /\ \E ext \in BOOLEAN :
       \E opcode \in 0..(Len(OpcodeList(ext)) - 1) :
         result' = OpcodeRecord(ext, opcode, OpcodeFlags(ext, opcode))
  /\ UNCHANGED <<arraybuffer, source, tail, context, saved, history>>

InitOpcodes == InitWith({<<>>}, {<<0>>}, {{}})

NextOpcodes == ReadOpcodeFlags

SpecOpcodes == InitOpcodes /\ [][NextOpcodes]_vars

OpcodeRead == result.op = "cbc_flags"

\* The entry of the opcode that was read.
OpcodeEntry == OpcodeList(result.ext)[result.opcode + 1]

BranchRead == OpcodeRead /\ BitAnd(OpcodeEntry.flags, CBC_HAS_BRANCH_ARG) # 0

OpcodeNames(ext) == { OpcodeList(ext)[i].name : i \in 1..Len(OpcodeList(ext)) }

\* The number of offset bytes that the name of a branch opcode stands for:
\* name_2 and name_3 are the variants of name with two and three bytes.
OffsetBytes(ext, name) ==
  IF \E plain \in OpcodeNames(ext) : name = plain \o "_3" THEN 3
  ELSE IF \E plain \in OpcodeNames(ext) : name = plain \o "_2" THEN 2
  ELSE 1

(***************************************************************************)
(* C28  For every opcode with a branch argument, of the base list and of   *)
(* the extended list, opcode & 0x3 is 1, 2 or 3 and is the number of bytes *)
(* of its offset: 1 for the plain opcode, 2 for its _2 variant and 3 for   *)
(* its _3 variant.                                                         *)
(***************************************************************************)
C28_BranchOffsetLength ==
  BranchRead =>
    /\ result.has_branch
    /\ result.offset_length \in {1, 2, 3}
    /\ result.offset_length = OffsetBytes(result.ext, OpcodeEntry.name)

\* CBC_EXT_TRY_CREATE_CONTEXT_3 is the opcode 15 of the extended list.
C28_Witness ==
  /\ BranchRead
  /\ result.ext
  /\ result.opcode = 15
  /\ OpcodeEntry.name = "CBC_EXT_TRY_CREATE_CONTEXT_3"
  /\ result.offset_length = 3

ForwardBranchRead == BranchRead /\ BitAnd(OpcodeEntry.flags, CBC_FORWARD_BRANCH_ARG) # 0

BackwardBranchRead == BranchRead /\ BitAnd(OpcodeEntry.flags, CBC_FORWARD_BRANCH_ARG) = 0

OffsetSuffixes == {"", "_2", "_3"}

\* The branches that the lists declare in both directions.
TwoWayBranches == {"CBC_JUMP", "CBC_BRANCH_IF_TRUE", "CBC_BRANCH_IF_FALSE"}

HasBackwardBranch(name) ==
  \E stem \in TwoWayBranches, suffix \in OffsetSuffixes : name = stem \o "_FORWARD" \o suffix

\* backward is the backward branch that belongs to the forward branch
\* forward, with the same number of offset bytes.
MatchingBranches(forward, backward) ==
  /\ \E stem \in TwoWayBranches, suffix \in OffsetSuffixes :
       /\ forward.name = stem \o "_FORWARD" \o suffix
       /\ backward.name = stem \o "_BACKWARD" \o suffix
  /\ BitAnd(forward.flags, CBC_HAS_BRANCH_ARG) # 0
  /\ BitAnd(forward.flags, CBC_FORWARD_BRANCH_ARG) # 0
  /\ BitAnd(backward.flags, CBC_HAS_BRANCH_ARG) # 0
  /\ BitAnd(backward.flags, CBC_FORWARD_BRANCH_ARG) = 0
  /\ forward.stack = backward.stack

\* The entry at the given distance from the opcode that was read.
OpcodeAt(distance) == OpcodeList(result.ext)[result.opcode + distance + 1]

InList(distance) == result.opcode + distance \in 0..(Len(OpcodeList(result.ext)) - 1)

C30_StackChangeRoundTrip ==
  OpcodeRead =>
    /\ OpcodeEntry.stack \in -4..3
    /\ OpcodeEntry.flags \in 0..31
    /\ result.flags = (OpcodeEntry.stack + 4) * 32 + OpcodeEntry.flags
    /\ result.flags \in 0..255
    /\ result.stack = OpcodeEntry.stack

\* CBC_PUSH_THREE_LITERALS pushes three values: the byte is 7 * 32 + 2.
C30_Witness ==
  /\ OpcodeRead
  /\ ~result.ext
  /\ OpcodeEntry.name = "CBC_PUSH_THREE_LITERALS"
  /\ result.flags = 226
  /\ result.stack = 3

(***************************************************************************)
(* Escape sequences in identifiers: the sources are an identifier that     *)
(* starts with a backslash or has one after its first character, followed  *)
(* by u or another letter and four bytes, cut after any of its bytes or    *)
(* followed by another letter.  character is the code the four bytes stand *)
(* for, -1 when one of them is no hex digit.                               *)
(***************************************************************************)
EscapePrefixes ==
  { [text |-> <<>>, length |-> 0],
    [text |-> Bytes(<<"a">>), length |-> 1],
    [text |-> Bytes(<<"\\", "u", "0", "0", "6", "1">>), length |-> 1] }

EscapeLetters == { Ord("u"), Ord("U"), Ord("x") }

EscapeDigits ==
  { [text |-> Bytes(<<"0", "0", "6", "1">>), character |-> 97],
    [text |-> Bytes(<<"0", "0", "3", "1">>), character |-> 49],
    [text |-> Bytes(<<"0", "0", "2", "0">>), character |-> 32],
    [text |-> Bytes(<<"0", "0", "2", "4">>), character |-> 36],
    [text |-> Bytes(<<"0", "0", "4", "A">>), character |-> 74],
    [text |-> Bytes(<<"0", "0", "e", "9">>), character |-> 233],
    [text |-> Bytes(<<"2", "0", "2", "8">>), character |-> 8232],
    [text |-> Bytes(<<"F", "f", "2", "1">>), character |-> 65313],
    [text |-> Bytes(<<"0", "0", "g", "1">>), character |-> -1],
    [text |-> Bytes(<<"g", "0", "6", "1">>), character |-> -1],
    [text |-> Bytes(<<"0", "0", "6", " ">>), character |-> -1],
    [text |-> Bytes(<<"0", " ", "6", "1">>), character |-> -1] }

\* keep is the number of bytes of the escape sequence that the source has;
\* a sequence that is cut is the end of the source.
EscapeCases ==
  { case \in [prefix : EscapePrefixes, letter : EscapeLetters, digits : EscapeDigits,
              keep : 1..6, suffix : {<<>>, Bytes(<<"b">>)}] :
      case.keep < 6 => case.suffix = <<>> }

EscapeCaseSource(case) ==
  case.prefix.text \o SubSeq(<<Backslash, case.letter>> \o case.digits.text, 1, case.keep)
    \o case.suffix

EscapeSources == { EscapeCaseSource(case) : case \in EscapeCases }

InitEscapes == InitWith(EscapeSources, {<<0>>}, {{}})

NextEscapes == NextToken

SpecEscapes == InitEscapes /\ [][NextEscapes]_vars

\* The escape sequence of the case is \u and four bytes.
EscapeComplete(case) == case.keep = 6 /\ case.letter = Ord("u")

\* What the escape sequence of the case fails with when its four bytes are
\* hex digits, "none" when it is accepted.
EscapePositionError(case) ==
  IF case.prefix.length = 0 /\ ~util_is_identifier_start_character(case.digits.character)
    THEN "PARSER_ERR_INVALID_IDENTIFIER_START"
  ELSE IF case.prefix.length # 0 /\ ~util_is_identifier_part_character(case.digits.character)
    THEN "PARSER_ERR_INVALID_IDENTIFIER_PART"
  ELSE "none"

\* no_digits is the error of a sequence \u whose four bytes are not all hex
\* digits.
EscapePrescribed(case, no_digits) ==
  IF ~EscapeComplete(case) THEN "PARSER_ERR_INVALID_UNICODE_ESCAPE_SEQUENCE"
  ELSE IF case.digits.character < 0 THEN no_digits
  ELSE EscapePositionError(case)

\* The identifier of the case is the token, with the length of its decoded
\* bytes.
EscapeAccepted(case) ==
  /\ ~Failed(context)
  /\ history[1].type = "LEXER_LITERAL"
  /\ context.token.lit_location.type = "LEXER_IDENT_LITERAL"
  /\ context.token.lit_location.has_escape
  /\ context.token.lit_location.length =
       case.prefix.length + Len(util_to_utf8_bytes(case.digits.character)) + Len(case.suffix)
  /\ context.source_p = Len(source)

EscapeOutcome(case, no_digits) ==
  IF EscapePrescribed(case, no_digits) = "none"
    THEN EscapeAccepted(case)
    ELSE context.error = EscapePrescribed(case, no_digits)

(***************************************************************************)
(* C31 as stated: a backslash in an identifier that is not followed by u   *)
(* and four hex digits, or that has fewer than six bytes left, fails with  *)
(* PARSER_ERR_INVALID_UNICODE_ESCAPE_SEQUENCE.                             *)
(***************************************************************************)
C31_BadDigitsAreUnicodeErrors ==
  \A case \in EscapeCases :
    EscapeCaseSource(case) = source /\ FirstTokenScanned
      => EscapeOutcome(case, "PARSER_ERR_INVALID_UNICODE_ESCAPE_SEQUENCE")

(***************************************************************************)
(* C31  A backslash in an identifier that has fewer than six bytes left or *)
(* is not followed by u fails with                                         *)
(* PARSER_ERR_INVALID_UNICODE_ESCAPE_SEQUENCE; \u followed by four bytes   *)
(* that are not all hex digits fails with                                  *)
(* PARSER_ERR_INVALID_ESCAPE_SEQUENCE.  A valid escape sequence whose      *)
(* character cannot start an identifier fails at the first position with   *)
(* PARSER_ERR_INVALID_IDENTIFIER_START, one whose character cannot be part *)
(* of an identifier fails at a later position with                         *)
(* PARSER_ERR_INVALID_IDENTIFIER_PART, and every other one is accepted.    *)
(***************************************************************************)
C31_IdentifierEscapes ==
  \A case \in EscapeCases :
    EscapeCaseSource(case) = source /\ FirstTokenScanned
      => EscapeOutcome(case, "PARSER_ERR_INVALID_ESCAPE_SEQUENCE")

\* a\u00g1: the third of the four bytes is no hex digit.
C31_Witness ==
  /\ source = Bytes(<<"a", "\\", "u", "0", "0", "g", "1">>)
  /\ FirstTokenScanned
  /\ context.error = "PARSER_ERR_INVALID_ESCAPE_SEQUENCE"
  /\ context.token.lit_location.has_escape
  /\ context.source_p = 1

(***************************************************************************)
(* Property names: lexer_expect_object_literal_id and                      *)
(* lexer_scan_identifier on the words get, set, static and constructor,    *)
(* on longer and on escaped spellings of them, before a colon, a name, a   *)
(* parenthesis or the end of the source, at the start of the source or     *)
(* after a first static.                                                   *)
(***************************************************************************)
PropertyWords ==
  { Bytes(<<"g", "e", "t">>),
    Bytes(<<"s", "e", "t">>),
    Bytes(<<"g", "e", "t", "s">>),
    Bytes(<<"s", "t", "a", "t", "i", "c">>),
    Bytes(<<"s", "t", "a", "t", "i", "c", "s">>),
    Bytes(<<"c", "o", "n", "s", "t", "r", "u", "c", "t", "o", "r">>),
    Bytes(<<"g">>) \o <<Backslash>> \o Bytes(<<"u", "0", "0", "6", "5", "t">>),
    Bytes(<<"s">>) \o <<Backslash>> \o Bytes(<<"u", "0", "0", "6", "5", "t">>),
    <<Backslash>> \o Bytes(<<"u", "0", "0", "7", "3", "t", "a", "t", "i", "c">>),
    Bytes(<<"c", "o", "n", "s", "t", "r", "u", "c", "t", "o">>) \o <<Backslash>> \o Bytes(<<"u", "0", "0", "7", "2">>),
    Bytes(<<"'", "c", "o", "n", "s", "t", "r", "u", "c", "t", "o", "r", "'">>),
    Bytes(<<"a", "b", "c">>) }

PropertyLeads == { <<>>, Bytes(<<"s", "t", "a", "t", "i", "c", " ">>) }

PropertyGaps == { <<>>, Bytes(<<" ">>), Bytes(<<" ", " ">>) }

PropertyFollowers == { <<>>, Bytes(<<":">>), Bytes(<<"x">>), Bytes(<<"(">>) }

PropertySources ==
  { lead \o word \o gap \o follower :
      lead \in PropertyLeads, word \in PropertyWords,
      gap \in PropertyGaps, follower \in PropertyFollowers }

InitProperty == InitWith(PropertySources, {<<0>>}, {{}})

NextProperty == ExpectObjectLiteralId \/ ScanIdentifier

SpecProperty == InitProperty /\ [][NextProperty]_vars

\* The first position from p on that holds no blank.
RECURSIVE AfterBlanks(_)
AfterBlanks(p) ==
  IF p < source_end_p /\ Byte(p) = Ord(" ") THEN AfterBlanks(p + 1) ELSE p

\* The end of the raw spelling of the name that starts at p: a quoted name
\* ends at its closing quote, another at the first byte that is no letter, no
\* digit and no backslash.
RECURSIVE RawNameEnd(_, _)
RawNameEnd(p, quoted) ==
  IF p >= source_end_p THEN p
  ELSE IF quoted THEN (IF Byte(p) = 39 THEN p ELSE RawNameEnd(p + 1, quoted))
  ELSE IF AsciiLetterOrDigit(Byte(p)) \/ Byte(p) = Backslash THEN RawNameEnd(p + 1, quoted)
  ELSE p

\* A name starts at p.
NameAt(p) ==
  p < source_end_p /\ (AsciiLetterOrDigit(Byte(p)) \/ Byte(p) \in {Backslash, 39})

\* The raw spelling of the name that starts at p, without its quotes.
RawName(p) ==
  LET quoted == Byte(p) = 39
      first == IF quoted THEN p + 1 ELSE p
  IN SourceBytes(first, RawNameEnd(first, quoted) - first)

\* A byte that is no blank follows the name that starts at p, and it is no
\* colon.
NameBeforeOther(p) ==
  LET quoted == Byte(p) = 39
      end == RawNameEnd(IF quoted THEN p + 1 ELSE p, quoted) + (IF quoted THEN 1 ELSE 0)
      next == AfterBlanks(end)
  IN next < source_end_p /\ Byte(next) # Ord(":")

\* The type the claim gives the name at p: accessors tells whether the call
\* looks for get and set, class_method whether it is in class-method mode
\* and the token before was no static.
PropertyTokenType(p, accessors, class_method) ==
  LET raw == RawName(p)
      identifier == Byte(p) # 39
  IN
  IF identifier /\ accessors /\ raw = Bytes(<<"g", "e", "t">>) /\ NameBeforeOther(p)
    THEN "LEXER_PROPERTY_GETTER"
  ELSE IF identifier /\ accessors /\ raw = Bytes(<<"s", "e", "t">>) /\ NameBeforeOther(p)
    THEN "LEXER_PROPERTY_SETTER"
  ELSE IF identifier /\ class_method /\ raw = Bytes(<<"s", "t", "a", "t", "i", "c">>)
    THEN "LEXER_KEYW_STATIC"
  ELSE IF class_method
            /\ raw = Bytes(<<"c", "o", "n", "s", "t", "r", "u", "c", "t", "o", "r">>)
    THEN "LEXER_CLASS_CONSTRUCTOR"
  ELSE "LEXER_LITERAL"

\* The step gives the name at the cursor the type expected: a reclassified
\* name never fails, another stays a literal unless its storing fails.
PropertyStep(expected) ==
  IF expected = "LEXER_LITERAL"
    THEN Failed(context') \/ context'.token.type = "LEXER_LITERAL"
    ELSE ~Failed(context') /\ context'.token.type = expected

ExpectedOfObjectLiteralId ==
  PropertyTokenType(AfterBlanks(context.source_p),
                    "LEXER_OBJ_IDENT_ONLY_IDENTIFIERS" \notin result'.ident_opts,
                    /\ "LEXER_OBJ_IDENT_CLASS_METHOD" \in result'.ident_opts
                    /\ "LEXER_OBJ_IDENT_ONLY_IDENTIFIERS" \notin result'.ident_opts
                    /\ context.token.type # "LEXER_KEYW_STATIC")

ExpectedOfScanIdentifier ==
  PropertyTokenType(AfterBlanks(context.source_p), result'.property_name, FALSE)

\* C32: a name is made a getter or a setter only when its raw spelling is the
\* three bytes get or set without an escape and a byte that is no space and
\* no colon follows it; static and constructor are made the class keyword and
\* the class constructor only in class-method mode when the token before was
\* not static; a longer or an escaped spelling of these words stays a
\* literal.  Wherever these conditions hold and the call looks for the word,
\* the name is reclassified.
C32_Reclassification ==
  [][ /\ (result'.op = "lexer_expect_object_literal_id" /\ NameAt(AfterBlanks(context.source_p))
            => PropertyStep(ExpectedOfObjectLiteralId))
      /\ (result'.op = "lexer_scan_identifier" /\ NameAt(AfterBlanks(context.source_p))
            /\ Byte(AfterBlanks(context.source_p)) # 39
            => PropertyStep(ExpectedOfScanIdentifier)) ]_vars

\* An escaped get before a name has stayed a literal of three characters in
\* a call that looks for get and set.
EscapedGetKept ==
  /\ result.op = "lexer_expect_object_literal_id"
  /\ ~Failed(context)
  /\ source = Bytes(<<"g">>) \o <<Backslash>> \o Bytes(<<"u", "0", "0", "6", "5", "t", " ", "x">>)
  /\ context.token.type = "LEXER_LITERAL"
  /\ context.token.lit_location.has_escape
  /\ context.token.lit_location.length = 3
  /\ "LEXER_OBJ_IDENT_ONLY_IDENTIFIERS" \notin result.ident_opts

\* The second static of a class body has stayed a literal.
SecondStaticKept ==
  /\ result.op = "lexer_expect_object_literal_id"
  /\ result.ident_opts = {"LEXER_OBJ_IDENT_CLASS_METHOD"}
  /\ ~Failed(context)
  /\ Len(history) = 2
  /\ history[1].type = "LEXER_KEYW_STATIC"
  /\ history[2].type = "LEXER_LITERAL"
  /\ history[2].text = Bytes(<<"s", "t", "a", "t", "i", "c">>)

\* A get before a name has been made a getter.
C32_Witness ==
  /\ result.op = "lexer_expect_object_literal_id"
  /\ ~Failed(context)
  /\ source = Bytes(<<"g", "e", "t", " ", "x">>)
  /\ context.token.type = "LEXER_PROPERTY_GETTER"
  /\ context.source_p = 4

(***************************************************************************)
(* Push-number opcodes turned into literals: small numbers that repeat,    *)
(* zero, the largest byte number and numbers that are not small.           *)
(***************************************************************************)
ConvertSources ==
  { Bytes(<<"1", " ", "2", " ", "1">>),
    Bytes(<<"0", " ", "1", " ", "0">>),
    Bytes(<<"5", " ", "3", "0", "0">>),
    Bytes(<<"2", "5", "6", " ", "2", "5", "7">>) }

InitConvert == InitWith(ConvertSources, {<<0>>}, {{}})

NextConvert ==
  \/ NextToken
  \/ ConstructNumber
  \/ EmitPushNumber
  \/ ConvertPushNumber

SpecConvert == InitConvert /\ [][NextConvert]_vars

\* The integer the last push-number opcode of c pushes.
PushedInteger(c) ==
  IF c.last_cbc_opcode \in {"CBC_PUSH_NUMBER_0", "CBC_EXT_PUSH_LITERAL_PUSH_NUMBER_0"}
    THEN 0
  ELSE IF c.last_cbc_opcode \in {"CBC_PUSH_NUMBER_POS_BYTE",
                                 "CBC_EXT_PUSH_LITERAL_PUSH_NUMBER_POS_BYTE"}
    THEN c.last_cbc.value + 1
  ELSE 0 - c.last_cbc.value - 1

\* The places in the pool of c of the number entries of length zero that are
\* keyed by value.
IntegerEntries(c, value) ==
  { i \in 1..Len(c.literal_pool) :
      /\ c.literal_pool[i].type = "LEXER_NUMBER_LITERAL"
      /\ c.literal_pool[i].length = 0
      /\ c.literal_pool[i].value = <<256 + value>> }

\* The opcode of c stands in the extended list.
ExtendedPush(c) ==
  c.last_cbc_opcode \in { "CBC_EXT_PUSH_LITERAL_PUSH_NUMBER_0",
                          "CBC_EXT_PUSH_LITERAL_PUSH_NUMBER_POS_BYTE",
                          "CBC_EXT_PUSH_LITERAL_PUSH_NUMBER_NEG_BYTE" }

\* The conversion of the push-number opcode of the state: the opcode becomes
\* a push of one or of two literals, its literal is the one entry keyed by the
\* integer, found in the pool or appended to it.
ConvertedAsStated ==
  LET value == PushedInteger(context)
      before == IntegerEntries(context, value)
      after == IntegerEntries(context', value)
      index == IF ExtendedPush(context) THEN context'.last_cbc.value
                                        ELSE context'.last_cbc.literal_index
  IN
  IF Failed(context')
    THEN /\ context'.error = "PARSER_ERR_LITERAL_LIMIT_REACHED"
         /\ before = {}
         /\ Len(context.literal_pool) >= PARSER_MAXIMUM_NUMBER_OF_LITERALS
         /\ context'.literal_pool = context.literal_pool
    ELSE /\ context'.last_cbc_opcode = (IF ExtendedPush(context) THEN "CBC_PUSH_TWO_LITERALS"
                                                                ELSE "CBC_PUSH_LITERAL")
         /\ ExtendedPush(context) => context'.last_cbc.literal_index = context.last_cbc.literal_index
         /\ after = {index + 1}
         /\ before # {} => /\ context'.literal_pool = context.literal_pool
                           /\ before = after
         /\ before = {} => /\ Len(context'.literal_pool) = Len(context.literal_pool) + 1
                           /\ SubSeq(context'.literal_pool, 1, Len(context.literal_pool))
                                = context.literal_pool
                           /\ index = Len(context.literal_pool)

\* C33: lexer_convert_push_number_to_push_literal rebuilds the integer of the
\* last push-number opcode (0, byte + 1, -byte - 1), finds or appends the
\* number entry of length zero keyed by that integer, and rewrites the opcode
\* to CBC_PUSH_LITERAL or, for an opcode of the extended list, to
\* CBC_PUSH_TWO_LITERALS; the same integer converted again gets the same
\* index, and two integers never get one entry.
C33_ConvertPushNumber ==
  [][ result'.op = "lexer_convert_push_number_to_push_literal" => ConvertedAsStated ]_vars

\* After the third number of 1 2 1 the entry of the first is taken again.
C33_Witness ==
  /\ source = Bytes(<<"1", " ", "2", " ", "1">>)
  /\ result.op = "lexer_convert_push_number_to_push_literal"
  /\ ~Failed(context)
  /\ Len(history) = 3
  /\ Len(context.literal_pool) = 2
  /\ IntegerEntries(context, 1) = {1}
  /\ IntegerEntries(context, 2) = {2}
  /\ context.last_cbc_opcode = "CBC_PUSH_LITERAL"
  /\ context.last_cbc.literal_index = 0

(***************************************************************************)
(* Opcodes without a result.  The enumeration cbc_opcode_t numbers the     *)
(* opcodes of CBC_OPCODE_LIST from 0 in the order of the list.             *)
(***************************************************************************)
CbcOpcode(name) ==
  CHOOSE opcode \in 0..(Len(CBC_OPCODE_LIST) - 1) : CBC_OPCODE_LIST[opcode + 1].name = name

CBC_PRE_INCR == CbcOpcode("CBC_PRE_INCR")

CBC_END == CbcOpcode("CBC_END")

CBC_ARG_TYPES ==
  BitOr(BitOr(CBC_HAS_LITERAL_ARG, CBC_HAS_LITERAL_ARG2),
        BitOr(CBC_HAS_BYTE_ARG, CBC_HAS_BRANCH_ARG))

\* The range that starts with the two delete opcodes before CBC_PRE_INCR.
CBC_NO_RESULT_OPERATION_FromDelete(opcode) ==
  opcode >= CBC_PRE_INCR - 2 /\ opcode < CBC_END

\* CBC_SUPER_CALL_OPERATION holds for opcodes of the extended list only.
CBC_NO_RESULT_OPERATION(opcode) ==
  opcode >= CBC_PRE_INCR /\ opcode < CBC_END

CBC_SAME_ARGS(op1, op2) ==
  BitAnd(cbc_flags[op1 + 1], CBC_ARG_TYPES) = BitAnd(cbc_flags[op2 + 1], CBC_ARG_TYPES)

\* The opcode that was read is the first of a group of three: the groups
\* are counted from the first opcode without a result.
FirstOfThreeRead ==
  /\ OpcodeRead
  /\ ~result.ext
  /\ CBC_NO_RESULT_OPERATION(result.opcode)
  /\ \E group \in 0..Len(CBC_OPCODE_LIST) :
       CBC_NO_RESULT_OPERATION(result.opcode - 3 * group)
         /\ ~CBC_NO_RESULT_OPERATION(result.opcode - 3 * group - 1)

(***************************************************************************)
(* C34  For every opcode X of the base list at a multiple of 3 from        *)
(* CBC_PRE_INCR and below CBC_END, X + 1 is the form of X that pushes its  *)
(* result, with the same flags and a stack change one higher, and X + 2   *)
(* is the block form of X, with the flags and the stack change of X.       *)
(***************************************************************************)
C34_ResultForms ==
  FirstOfThreeRead =>
    /\ (result.opcode - CBC_PRE_INCR) % 3 = 0
    /\ result.opcode + 2 < CBC_END
    /\ OpcodeAt(1).name = OpcodeEntry.name \o "_PUSH_RESULT"
    /\ OpcodeAt(2).name = OpcodeEntry.name \o "_BLOCK"
    /\ CBC_SAME_ARGS(result.opcode, result.opcode + 1)
    /\ CBC_SAME_ARGS(result.opcode, result.opcode + 2)
    /\ OpcodeAt(1).flags = OpcodeEntry.flags
    /\ OpcodeAt(2).flags = OpcodeEntry.flags
    /\ result.stack = OpcodeEntry.stack
    /\ OpcodeAt(1).stack = OpcodeEntry.stack + 1
    /\ OpcodeAt(2).stack = OpcodeEntry.stack

\* CBC_CALL_PROP pops its arguments and three values more, and
\* CBC_CALL_PROP_PUSH_RESULT after it one value less.
C34_Witness ==
  /\ FirstOfThreeRead
  /\ OpcodeEntry.name = "CBC_CALL_PROP"
  /\ OpcodeAt(1).name = "CBC_CALL_PROP_PUSH_RESULT"
  /\ OpcodeAt(2).name = "CBC_CALL_PROP_BLOCK"
  /\ result.stack = -3
  /\ OpcodeAt(1).stack = -2
  /\ BitAnd(result.flags, CBC_HAS_POP_STACK_BYTE_ARG) = CBC_HAS_POP_STACK_BYTE_ARG

(***************************************************************************)
(* Empty statements: the sources are up to three pieces, each a blank, a   *)
(* tab, a line feed, a semicolon, a comment with one character of one or   *)
(* of two bytes, or a name.                                                *)
(***************************************************************************)
StatementPieces ==
  { <<>>, Bytes(<<" ">>), <<LEXER_TAB>>, <<LEXER_NEWLINE_LF>>, Bytes(<<";">>),
    Bytes(<<"/", "*", "a", "*", "/">>), Bytes(<<"/", "*">>) \o <<195, 169>> \o Bytes(<<"*", "/">>),
    Bytes(<<"/", "/", "a">>), Bytes(<<"x">>) }

StatementSources ==
  { first \o second \o third :
      first \in StatementPieces, second \in StatementPieces, third \in StatementPieces }

InitStatements == InitWith(StatementSources, {<<0>>}, {{}})

NextStatements ==
  \/ NextToken
  \/ SkipSpaces
  \/ SkipEmptyStatements

SpecStatements == InitStatements /\ [][NextStatements]_vars

\* The column of the character that starts after the first n bytes of the
\* source: 1 after a line terminator, the next tab stop after a tab, and one
\* more after every other character, whatever the number of its bytes.
RECURSIVE CharacterColumn(_)
CharacterColumn(n) ==
  IF n = 0 \/ TerminatorEndsAt(n) THEN 1
  ELSE IF source[n] = LEXER_TAB THEN NextTabStop(CharacterColumn(n - 1))
  ELSE IF source[n] >= 128 /\ source[n] < 192 THEN CharacterColumn(n - 1)
  ELSE CharacterColumn(n - 1) + 1

SpacesSkipped ==
  /\ result.op \in {"lexer_skip_spaces", "lexer_skip_empty_statements"}
  /\ ~Failed(context)

(***************************************************************************)
(* C35 as stated: after lexer_skip_spaces or lexer_skip_empty_statements   *)
(* has returned, the column of the context is the column of the character  *)
(* at the cursor within its line, counted from 1: every character of a     *)
(* comment and every semicolon that was passed counts one, a tab goes to   *)
(* the next tab stop, and a character of several bytes counts one.         *)
(***************************************************************************)
C35_ColumnOfCursor ==
  SpacesSkipped => context.column = CharacterColumn(context.source_p)

\* After the semicolon of ;x the cursor is at the second character and the
\* column is 1.
C35_Witness ==
  /\ SpacesSkipped
  /\ result.op = "lexer_skip_empty_statements"
  /\ source = Bytes(<<";", "x">>)
  /\ context.source_p = 1
  /\ context.column = 1
  /\ CharacterColumn(context.source_p) = 2

\* After the comment of /*a*/x the cursor is at the sixth character and the
\* column is 5.
CommentColumnShort ==
  /\ SpacesSkipped
  /\ result.op = "lexer_skip_spaces"
  /\ source = Bytes(<<"/", "*", "a", "*", "/", "x">>)
  /\ context.source_p = 5
  /\ context.column = 5

\* The column is right where no semicolon was passed and no comment stands
\* before the cursor on its line.
ColumnWithoutCommentsAndSemicolons ==
  SpacesSkipped /\ (\A i \in 1..context.source_p : source[i] \notin {Ord(";"), Ord("/")})
    => context.column = CharacterColumn(context.source_p)

(***************************************************************************)
(* Lookaheads after a name: the sources are get, set or another name, then *)
(* blanks, a tab, a line feed or comments, then a colon, a comma, an       *)
(* arrow, a parenthesis, a name or nothing.                                *)
(***************************************************************************)
LookaheadNames ==
  { Bytes(<<"g", "e", "t">>), Bytes(<<"s", "e", "t">>), Bytes(<<"a">>) }

LookaheadGaps ==
  { <<>>, Bytes(<<" ">>), <<LEXER_TAB>>, <<LEXER_NEWLINE_LF>>,
    Bytes(<<"/", "*", "c", "*", "/">>), Bytes(<<" ", "/", "*", "c", "*", "/", " ">>),
    Bytes(<<" ", "/", "/", "c">>) \o <<LEXER_NEWLINE_LF>>,
    <<LEXER_NEWLINE_LF>> \o Bytes(<<" ", "/", "*">>) \o <<LEXER_NEWLINE_LF>> \o Bytes(<<"*", "/">>) }

LookaheadFollowers ==
  { <<>>, Bytes(<<":">>), Bytes(<<",">>), Bytes(<<"=", ">">>), Bytes(<<"(">>), Bytes(<<"x">>) }

LookaheadSources ==
  { lead \o name \o gap \o follower :
      lead \in {<<>>, Bytes(<<" ">>)}, name \in LookaheadNames,
      gap \in LookaheadGaps, follower \in LookaheadFollowers }

InitLookahead == InitWith(LookaheadSources, {<<0>>}, {{}})

NextLookahead ==
  \/ NextToken
  \/ CheckNextCharacter
  \/ CheckArrow
  \/ ExpectObjectLiteralId
  \/ ScanIdentifier

SpecLookahead == InitLookahead /\ [][NextLookahead]_vars

\* The position at which a function that skips the spaces of c and then
\* reads a token records that token.
PositionAfterSpaces(c) == <<lexer_skip_spaces(c).line, lexer_skip_spaces(c).column>>

\* The step is a call of lexer_expect_object_literal_id or of
\* lexer_scan_identifier that has read a name and returned.
NameRead ==
  /\ result'.op \in {"lexer_expect_object_literal_id", "lexer_scan_identifier"}
  /\ ~Failed(context')
  /\ context'.token.type \in {"LEXER_LITERAL", "LEXER_PROPERTY_GETTER", "LEXER_PROPERTY_SETTER"}

(***************************************************************************)
(* C36 as stated: a lookahead after a token (lexer_check_next_character,   *)
(* lexer_check_arrow, or the look for what follows get and set in          *)
(* lexer_expect_object_literal_id and lexer_scan_identifier) leaves the    *)
(* line and the column recorded for that token as they were, whatever      *)
(* blanks and comments it passes.                                          *)
(***************************************************************************)
C36_LookaheadKeepsTokenPosition ==
  [][ /\ LookaheadCalled /\ ~Failed(context') =>
           TokenPosition(context') = TokenPosition(context)
      /\ NameRead => TokenPosition(context') = PositionAfterSpaces(context) ]_vars

\* After the lookahead behind the a of a/*c*/, the token a of column 1 has
\* the column of the comment.
C36_Witness ==
  /\ source = Bytes(<<"a", "/", "*", "c", "*", "/", ",">>)
  /\ result.op = "lexer_check_next_character"
  /\ ~Failed(context)
  /\ Len(history) = 1
  /\ history[1].column = 1
  /\ context.token.type = "LEXER_LITERAL"
  /\ context.token.column = 2

\* After get /*c*/ x the getter of column 1 has the column of the comment.
GetterAtComment ==
  /\ source = Bytes(<<"g", "e", "t", " ", "/", "*", "c", "*", "/", " ", "x">>)
  /\ result.op = "lexer_expect_object_literal_id"
  /\ Len(history) = 1
  /\ context.token.type = "LEXER_PROPERTY_GETTER"
  /\ context.token.line = 1
  /\ context.token.column = 5

\* The token position stays in every lookahead that passes no opener of a
\* block comment.
TokenPositionKeptWithoutBlockComment ==
  [][ /\ LookaheadCalled /\ ~Failed(context')
           /\ NoOpenerBetween(context.source_p, context'.source_p) =>
           TokenPosition(context') = TokenPosition(context)
      /\ NameRead /\ NoOpenerBetween(lexer_skip_spaces(context).source_p, context'.source_p) =>
           TokenPosition(context') = PositionAfterSpaces(context) ]_vars

(***************************************************************************)
(* The end of the comparison loop.  The kept identifier is the first of    *)
(* the source and ends before the blank, the current one ends at the       *)
(* cursor of the context.                                                  *)
(***************************************************************************)
RECURSIVE BlankFrom(_)
BlankFrom(p) == IF p >= source_end_p \/ Byte(p) = Ord(" ") THEN p ELSE BlankFrom(p + 1)

KeptSpanEnd == BlankFrom(saved[1].location.char_p)

CurrentSpanEnd == context.source_p

\* The comparison went into its loop: the lengths are the same and one of
\* the two identifiers has an escape sequence.
LoopEntered ==
  /\ Compared
  /\ saved[1].location.length = context.token.lit_location.length
  /\ saved[1].location.has_escape \/ context.token.lit_location.has_escape

\* One cursor is in the span of the kept identifier or at its end, the
\* other in the span of the current one or at its end.
CursorsWithinSpans ==
  \E kept_p \in {result.left_p, result.right_p} :
    \E current_p \in {result.left_p, result.right_p} :
      /\ {kept_p, current_p} = {result.left_p, result.right_p}
      /\ kept_p >= saved[1].location.char_p /\ kept_p <= KeptSpanEnd
      /\ current_p >= context.token.lit_location.char_p /\ current_p <= CurrentSpanEnd

CursorsAtSpanEnds == {result.left_p, result.right_p} = {KeptSpanEnd, CurrentSpanEnd}

(***************************************************************************)
(* C37 as stated: for two identifiers of the same length of which one has  *)
(* an escape sequence, the loop of lexer_compare_identifier_to_current     *)
(* ends, it is left with the count 0 exactly when both cursors are at the  *)
(* end of their span, and no cursor leaves its span.                       *)
(***************************************************************************)
C37_LoopEndsAtSpanEnds ==
  LoopEntered =>
    /\ ~result.overrun
    /\ CursorsWithinSpans
    /\ result.return => result.count = 0 /\ CursorsAtSpanEnds

\* After the two escape sequences of a a the count is 2 and the
\* loop reads the blank and what follows the source.
C37_Witness ==
  /\ LoopEntered
  /\ source = EscapeOf(<<"0", "0", "6", "1">>) \o Bytes(<<" ">>) \o EscapeOf(<<"0", "0", "6", "1">>)
  /\ result.count > 0
  /\ context.token.lit_location.char_p = 7
  /\ result.left_p > CurrentSpanEnd
  /\ result.right_p > KeptSpanEnd

\* The loop ends as stated for every pair of which only one identifier has
\* an escape sequence.
LoopEndsWithOneEscapedIdentifier ==
  LoopEntered /\ ~(saved[1].location.has_escape /\ context.token.lit_location.has_escape)
    => /\ ~result.overrun
       /\ CursorsWithinSpans
       /\ result.return => result.count = 0 /\ CursorsAtSpanEnds

(***************************************************************************)
(* C38  In every state that is reached without an error, literal_count is  *)
(* the number of entries of the literal pool: the index a search ends with *)
(* after it has passed every entry is literal_count, as the assertions of  *)
(* lexer_process_char_literal and of                                       *)
(* lexer_convert_push_number_to_push_literal require.                      *)
(***************************************************************************)
C38_CountIsPoolLength ==
  ~Failed(context) => context.literal_count = Len(context.literal_pool)

\* A pool of a function, a name and a number, each counted.
C38_Witness ==
  /\ ~Failed(context)
  /\ context.literal_count = 3
  /\ Len(context.literal_pool) = 3
  /\ { context.literal_pool[i].type : i \in 1..3 }
       = {"LEXER_FUNCTION_LITERAL", "LEXER_IDENT_LITERAL", "LEXER_NUMBER_LITERAL"}

(***************************************************************************)
(* ArrayBuffer objects: one object with internal memory or with an         *)
(* external buffer, with or without a free callback, of a length up to     *)
(* MaxBufferLength, and the calls that read or detach it.                  *)
(***************************************************************************)
MaxBufferLength == 3

ExternalBuffers == { "NULL", "buffer" }

FreeCallbacks == { "NULL", "free_cb" }

ArrayBufferObjects ==
  { ecma_arraybuffer_new_object(length) : length \in 0..MaxBufferLength }
    \cup { ecma_arraybuffer_new_object_external(length, buffer_p, free_cb) :
             length \in 0..MaxBufferLength, buffer_p \in ExternalBuffers,
             free_cb \in FreeCallbacks }

Detach ==
  /\ arraybuffer' = ecma_arraybuffer_detach(arraybuffer).object_p
  /\ result' = [op |-> "ecma_arraybuffer_detach",
                return |-> ecma_arraybuffer_detach(arraybuffer).return]
  /\ UNCHANGED <<source, tail, context, saved, history>>

GetLength ==
  /\ result' = [op |-> "ecma_arraybuffer_get_length",
                return |-> ecma_arraybuffer_get_length(arraybuffer)]
  /\ UNCHANGED <<arraybuffer, source, tail, context, saved, history>>

GetBuffer ==
  /\ result' = [op |-> "ecma_arraybuffer_get_buffer",
                return |-> ecma_arraybuffer_get_buffer(arraybuffer)]
  /\ UNCHANGED <<arraybuffer, source, tail, context, saved, history>>

IsDetached ==
  /\ result' = [op |-> "ecma_arraybuffer_is_detached",
                return |-> ecma_arraybuffer_is_detached(arraybuffer)]
  /\ UNCHANGED <<arraybuffer, source, tail, context, saved, history>>

InitArrayBuffer ==
  /\ source = <<>>
  /\ tail = <<0>>
  /\ context = InitialContext({})
  /\ saved = <<>>
  /\ result = [op |-> "none"]
  /\ history = <<>>
  /\ arraybuffer \in ArrayBufferObjects

NextArrayBuffer ==
  \/ Detach
  \/ GetLength
  \/ GetBuffer
  \/ IsDetached

SpecArrayBuffer == InitArrayBuffer /\ [][NextArrayBuffer]_vars

DetachedFlag(object_p) == "ECMA_ARRAYBUFFER_DETACHED" \in object_p.array_buffer_flags

ExternalFlag(object_p) == "ECMA_ARRAYBUFFER_EXTERNAL_MEMORY" \in object_p.array_buffer_flags

\* A call of ecma_arraybuffer_detach: the first returns true, a later one
\* returns false and changes nothing; the first one of an object with an
\* external buffer calls the free callback, if there is one, with the buffer
\* and leaves no buffer.
DetachStep ==
  result'.op = "ecma_arraybuffer_detach" =>
    /\ result'.return = ~DetachedFlag(arraybuffer)
    /\ DetachedFlag(arraybuffer')
    /\ DetachedFlag(arraybuffer) => arraybuffer' = arraybuffer
    /\ ~DetachedFlag(arraybuffer) /\ ExternalFlag(arraybuffer) =>
         /\ arraybuffer'.buffer_p = "NULL"
         /\ arraybuffer'.freed = IF arraybuffer.free_cb = "NULL" THEN arraybuffer.freed
                                 ELSE Append(arraybuffer.freed, arraybuffer.buffer_p)
    /\ ~DetachedFlag(arraybuffer) /\ ~ExternalFlag(arraybuffer) =>
         arraybuffer'.freed = arraybuffer.freed

\* What the calls that read the object return once it is detached.
ReadDetached ==
  DetachedFlag(arraybuffer) =>
    /\ result'.op = "ecma_arraybuffer_get_length" => result'.return = 0
    /\ result'.op = "ecma_arraybuffer_get_buffer" => result'.return = "NULL"
    /\ result'.op = "ecma_arraybuffer_is_detached" => result'.return

(***************************************************************************)
(* C39  An ArrayBuffer is detached at most once and stays detached: the    *)
(* first ecma_arraybuffer_detach returns true, every later one returns     *)
(* false and changes nothing.  The free callback of an external buffer is  *)
(* called once, at the first detach, and never again; after it buffer_p is *)
(* NULL.  From then on ecma_arraybuffer_get_length returns 0 and           *)
(* ecma_arraybuffer_get_buffer returns NULL.                               *)
(***************************************************************************)
C39_DetachedOnce ==
  [][ /\ DetachStep
      /\ ReadDetached
      /\ DetachedFlag(arraybuffer) => DetachedFlag(arraybuffer')
      /\ arraybuffer'.freed # arraybuffer.freed =>
           /\ result'.op = "ecma_arraybuffer_detach"
           /\ result'.return
           /\ arraybuffer.freed = <<>>
      /\ Len(arraybuffer'.freed) <= 1
      /\ arraybuffer'.array_buffer_flags \ {"ECMA_ARRAYBUFFER_DETACHED"}
           = arraybuffer.array_buffer_flags \ {"ECMA_ARRAYBUFFER_DETACHED"} ]_vars

\* The second detach of an object with an external buffer and a free
\* callback has returned false; the callback was called once, with the buffer.
C39_Witness ==
  /\ result.op = "ecma_arraybuffer_detach"
  /\ ~result.return
  /\ DetachedFlag(arraybuffer)
  /\ ExternalFlag(arraybuffer)
  /\ arraybuffer.freed = <<"buffer">>
  /\ arraybuffer.buffer_p = "NULL"
  /\ ecma_arraybuffer_get_length(arraybuffer) = 0

====
